---- MODULE Spec2Model ----
(***************************************************************************)
(* A model of the portfolio optimizer of MF-AI-Tool                        *)
(* (src/riskfolio_optimizer.py): fund resolution, series alignment, the    *)
(* solver with its retry, post-solve normalization, the three constraint   *)
(* passes and the degraded results.                                        *)
(*                                                                         *)
(* Numbers.  Weights and targets are Python floats.  They are modelled as  *)
(* rationals <<n, d>> (d > 0, lowest terms) in percent; round(x, 2) is     *)
(* rounding to the nearest hundredth, ties to even.  The solver            *)
(* (scipy.optimize.minimize) is outside the repository: its outcome is a   *)
(* nondeterministic choice between a raised exception, a result with       *)
(* success False, and a result with success True whose x is one of         *)
(* SolverVectors.                                                          *)
(***************************************************************************)
EXTENDS Integers, Sequences, FiniteSets, TLC

\* ------------------------------------------------------------------ bounds
\* longest list of fund names in suggested_funds
MaxSuggested ==
  2

\* largest count per category in fund_counts
MaxCount ==
  2

\* threads that make their first call of initialize_fund_data together
MaxThreads ==
  3

\* calls of CoordinatorAgent.reset in one run
MaxResets ==
  2

\* longest daily return series of the fund universe
MaxDays ==
  10

\* --------------------------------------------------------------- constants
\* returns_df.shape[0] < 10 is insufficient historical data
MinHistoryDays ==
  10

\* returns_df.shape[0] < 2 cannot form a returns DataFrame
MinFrameDays ==
  2

\* --------------------------------------------------------------- rationals
\* A float is the rational <<n, d>> in lowest terms, d > 0.  A Python float
\* carries 53 bits; here an operation is exact while its terms stay below
\* MaxInt, and otherwise its larger operand is first rounded to a coarser
\* denominator (Coarsen), the way a float operation rounds.
RECURSIVE GCD(_, _)
GCD(a, b) ==
  IF b = 0 THEN a ELSE GCD(b, a % b)

Abs(x) ==
  IF x < 0 THEN -x ELSE x

Sign(n) ==
  IF n < 0 THEN -1 ELSE 1

Reduce(n, d, g) ==
  IF g = 0 THEN <<0, 1>> ELSE <<n \div g, d \div g>>

\* n/d in lowest terms, d > 0
Norm(n, d) ==
  Reduce(n, d, GCD(Abs(n), d))

R(n) ==
  <<n, 1>>

Zero ==
  <<0, 1>>

MaxInt ==
  1073741823 * 2 + 1

\* a * b does not exceed MaxInt
Fits(a, b) ==
  a = 0 \/ b = 0 \/ Abs(a) <= MaxInt \div Abs(b)

\* <<q, r>> with a + b = q * c + r, for 0 <= a, b < c
AddMod(a, b, c) ==
  IF a >= c - b THEN <<1, a - (c - b)>> ELSE <<0, a + b>>

\* from h = <<q, r>> with a * (b \div 2) = q * c + r and d = AddMod(r, r, c),
\* the pair for a * b
DoubleStep(h, d, a, b, c) ==
  IF b % 2 = 0 THEN <<2 * h[1] + d[1], d[2]>>
  ELSE <<2 * h[1] + d[1] + (a \div c) + AddMod(d[2], a % c, c)[1],
         AddMod(d[2], a % c, c)[2]>>

DoubleOf(h, a, b, c) ==
  DoubleStep(h, AddMod(h[2], h[2], c), a, b, c)

\* <<q, r>> with a * b = q * c + r and 0 <= r < c, for a, b >= 0 and c > 0,
\* by doubling, so that no intermediate term exceeds MaxInt
RECURSIVE MulDivMod(_, _, _)
MulDivMod(a, b, c) ==
  IF b = 0 THEN <<0, 0>> ELSE DoubleOf(MulDivMod(a, b \div 2, c), a, b, c)

RoundUp(qr, c) ==
  IF qr[2] >= c - qr[2] THEN qr[1] + 1 ELSE qr[1]

\* a * b / c rounded to the nearest integer, for a, b >= 0 and c > 0
RoundMulDiv(a, b, c) ==
  RoundUp(MulDivMod(a, b, c), c)

\* x rounded to the nearest multiple of 1 / (x[2] \div 2), for x[2] >= 2
Coarsen(x) ==
  Norm(Sign(x[1]) * RoundMulDiv(Abs(x[1]), x[2] \div 2, x[2]), x[2] \div 2)

\* the size of the terms of x; an integer is not rounded further
Size(x) ==
  IF x[2] = 1 THEN 0 ELSE IF Abs(x[1]) > x[2] THEN Abs(x[1]) ELSE x[2]

Replace(first, z, x, y) ==
  IF first THEN <<z, y>> ELSE <<x, z>>

\* the pair <<x, y>> with the operand of larger terms rounded
CoarsenLarger(x, y) ==
  Replace(Size(x) >= Size(y), Coarsen(IF Size(x) >= Size(y) THEN x ELSE y), x, y)

\* x * y with the common factors g1 of x[1], y[2] and g2 of y[1], x[2] removed
MulFits(x, y, g1, g2) ==
  /\ Fits(x[1] \div g1, y[1] \div g2)
  /\ Fits(x[2] \div g2, y[2] \div g1)

AddFits(x, y, g) ==
  /\ Fits(x[1], y[2] \div g)
  /\ Fits(y[1], x[2] \div g)
  /\ Fits(x[2] \div g, y[2])
  /\ Abs(x[1] * (y[2] \div g)) <= MaxInt - Abs(y[1] * (x[2] \div g))

LtFits(x, y) ==
  Fits(x[1], y[2]) /\ Fits(y[1], x[2])

\* the operation op is exact on x and y
Exact(op, x, y) ==
  CASE op = "mul" -> MulFits(x, y, GCD(Abs(x[1]), y[2]), GCD(Abs(y[1]), x[2]))
    [] op = "add" -> AddFits(x, y, GCD(x[2], y[2]))
    [] OTHER -> LtFits(x, y)

\* <<x, y>> rounded until op is exact on it (two integers are left alone)
RECURSIVE Fit(_, _)
Fit(op, p) ==
  IF Exact(op, p[1], p[2]) \/ (p[1][2] = 1 /\ p[2][2] = 1) THEN p
  ELSE Fit(op, CoarsenLarger(p[1], p[2]))

AddBy(x, y, g) ==
  IF AddFits(x, y, g)
  THEN Norm(x[1] * (y[2] \div g) + y[1] * (x[2] \div g), (x[2] \div g) * y[2])
  ELSE <<Sign(x[1]) * MaxInt, 1>>

AddPair(p) ==
  AddBy(p[1], p[2], GCD(p[1][2], p[2][2]))

RAdd(x, y) ==
  AddPair(Fit("add", <<x, y>>))

MulBy(x, y, g1, g2) ==
  IF MulFits(x, y, g1, g2)
  THEN Norm((x[1] \div g1) * (y[1] \div g2), (x[2] \div g2) * (y[2] \div g1))
  ELSE <<Sign(x[1]) * Sign(y[1]) * MaxInt, 1>>

MulPair(p) ==
  MulBy(p[1], p[2], GCD(Abs(p[1][1]), p[2][2]), GCD(Abs(p[2][1]), p[1][2]))

RMul(x, y) ==
  MulPair(Fit("mul", <<x, y>>))

\* 1 / y for y # 0
Inverse(y) ==
  IF y[1] < 0 THEN <<-y[2], -y[1]>> ELSE <<y[2], y[1]>>

\* x / y for y # 0
RDiv(x, y) ==
  RMul(x, Inverse(y))

LtPair(p) ==
  p[1][1] * p[2][2] < p[2][1] * p[1][2]

RLt(x, y) ==
  LtPair(Fit("lt", <<x, y>>))

RMax(x, y) ==
  IF RLt(x, y) THEN y ELSE x

\* x > 0
IsPositive(x) ==
  x[1] > 0

\* nearest integer to a/b (b > 0), ties to the even integer
RoundHalfEven(a, b) ==
  IF 2 * (a % b) > b THEN (a \div b) + 1
  ELSE IF 2 * (a % b) < b THEN a \div b
  ELSE IF (a \div b) % 2 = 0 THEN a \div b ELSE (a \div b) + 1

\* round(x, 2)
RECURSIVE Round2(_)
Round2(x) ==
  IF Fits(x[2], 200) /\ Fits(x[1], 100)
  THEN Norm((x[1] \div x[2]) * 100 + RoundHalfEven((x[1] % x[2]) * 100, x[2]), 100)
  ELSE IF x[2] = 1 THEN x
  ELSE Round2(Coarsen(x))

\* sum(d.values()) of a dict d (a function from names to rationals)
RECURSIVE SumValues(_)
SumValues(d) ==
  IF DOMAIN d = {} THEN Zero
  ELSE LET k == CHOOSE k \in DOMAIN d : TRUE
       IN  RAdd(d[k], SumValues([j \in DOMAIN d \ {k} |-> d[j]]))

\* sum(weights.get(f, 0) for f in fund_list), fund_list a sequence of names
RECURSIVE SumGet(_, _)
SumGet(d, fund_list) ==
  IF fund_list = <<>> THEN Zero
  ELSE RAdd(IF Head(fund_list) \in DOMAIN d THEN d[Head(fund_list)] ELSE Zero,
            SumGet(d, Tail(fund_list)))

\* ----------------------------------------------------------- fund universe
\* The rows of the DataFrame built by generate_dummy_funds, in row order.
\* The model keeps six of its 44 funds: one per INR asset type, two USA and
\* one Japan large-cap fund for USD.
FundNames ==
  << "HDFC Top 100 Fund", "HDFC Corporate Bond Fund", "HDFC TaxSaver Fund",
     "Vanguard S&P 500 Index Fund", "Fidelity 500 Index Fund",
     "Nikko AM Japan Equity Fund" >>

\* one fund row: type, currency, geography, category, returns (in tenths)
FundRow(name) ==
  CASE name = "HDFC Top 100 Fund" ->
         [name |-> name, type |-> "equity", currency |-> "INR",
          geography |-> "India", category |-> "large_cap", returns |-> 142]
    [] name = "HDFC Corporate Bond Fund" ->
         [name |-> name, type |-> "debt", currency |-> "INR",
          geography |-> "India", category |-> "debt", returns |-> 75]
    [] name = "HDFC TaxSaver Fund" ->
         [name |-> name, type |-> "taxsaver", currency |-> "INR",
          geography |-> "India", category |-> "tax_saver", returns |-> 155]
    [] name = "Vanguard S&P 500 Index Fund" ->
         [name |-> name, type |-> "equity", currency |-> "USD",
          geography |-> "USA", category |-> "large_cap", returns |-> 125]
    [] name = "Fidelity 500 Index Fund" ->
         [name |-> name, type |-> "equity", currency |-> "USD",
          geography |-> "USA", category |-> "large_cap", returns |-> 127]
    [] name = "Nikko AM Japan Equity Fund" ->
         [name |-> name, type |-> "equity", currency |-> "USD",
          geography |-> "Japan", category |-> "large_cap", returns |-> 85]

Range(seq) ==
  {seq[i] : i \in 1..Len(seq)}

\* the subsequence of seq whose elements are in keep (a boolean mask)
RECURSIVE Filter(_, _)
Filter(seq, keep) ==
  IF seq = <<>> THEN <<>>
  ELSE IF Head(seq) \in keep THEN <<Head(seq)>> \o Filter(Tail(seq), keep)
       ELSE Filter(Tail(seq), keep)

\* str(fund_name).strip() of the spellings a caller may send
StripOf(s) ==
  CASE s = " hdfc taxsaver fund " -> "hdfc taxsaver fund"
    [] OTHER -> s

\* .lower() of a stripped spelling
LowerOf(s) ==
  CASE s = "HDFC Top 100 Fund" -> "hdfc top 100 fund"
    [] s = "HDFC Corporate Bond Fund" -> "hdfc corporate bond fund"
    [] s = "HDFC TaxSaver Fund" -> "hdfc taxsaver fund"
    [] s = "Vanguard S&P 500 Index Fund" -> "vanguard s&p 500 index fund"
    [] s = "Fidelity 500 Index Fund" -> "fidelity 500 index fund"
    [] s = "Nikko AM Japan Equity Fund" -> "nikko am japan equity fund"
    [] s = "Unknown Fund" -> "unknown fund"
    [] OTHER -> s

\* df[df["name"].str.strip() == clean], else the case-insensitive match:
\* the rows (names, in row order) a suggested fund name resolves to
ResolveName(fund_name) ==
  LET clean == StripOf(fund_name)
      exact == Filter(FundNames, {n \in Range(FundNames) : StripOf(n) = clean})
      lower == Filter(FundNames,
                 {n \in Range(FundNames) : LowerOf(StripOf(n)) = LowerOf(clean)})
  IN  IF Len(exact) > 0 THEN <<exact[1]>>
      ELSE IF Len(lower) > 0 THEN <<lower[1]>>
      ELSE <<>>

\* the loop over suggested_funds: every resolvable name appends its row
RECURSIVE ResolveSuggested(_)
ResolveSuggested(names) ==
  IF names = <<>> THEN <<>>
  ELSE ResolveName(Head(names)) \o ResolveSuggested(Tail(names))

\* a dict with ordered keys is a sequence of <<key, value>> pairs
Keys(dict) ==
  {dict[i][1] : i \in 1..Len(dict)}

\* dict.get(key, 0) for a dict of integer percentages
GetPct(dict, key) ==
  IF \E i \in 1..Len(dict) : dict[i][1] = key
  THEN dict[CHOOSE i \in 1..Len(dict) : dict[i][1] = key][2]
  ELSE 0

\* rows.sort_values('returns', ascending=False): names by falling returns,
\* equal returns in row order
RECURSIVE SortByReturns(_)
SortByReturns(rows) ==
  IF rows = <<>> THEN <<>>
  ELSE LET best == CHOOSE i \in 1..Len(rows) :
                     /\ \A j \in 1..Len(rows) :
                          FundRow(rows[j]).returns <= FundRow(rows[i]).returns
                     /\ \A j \in 1..(i - 1) :
                          FundRow(rows[j]).returns < FundRow(rows[i]).returns
       IN  <<rows[best]>>
             \o SortByReturns(SubSeq(rows, 1, best - 1)
                                \o SubSeq(rows, best + 1, Len(rows)))

\* seq.head(n) and seq[:n]
HeadN(seq, n) ==
  SubSeq(seq, 1, IF n < Len(seq) THEN n ELSE Len(seq))

Max(a, b) ==
  IF a < b THEN b ELSE a

\* the loop over geography_constraints.items(): per geography the top
\* max(1, int(count * weight / 100)) funds of the category
RECURSIVE SelectPerGeography(_, _, _)
SelectPerGeography(category_funds, count, constraints) ==
  IF constraints = <<>> THEN <<>>
  ELSE LET geo == Head(constraints)[1]
           weight == Head(constraints)[2]
           geo_count == Max(1, (count * weight) \div 100)
           geo_funds == Filter(category_funds,
                          {n \in Range(category_funds) : FundRow(n).geography = geo})
       IN  HeadN(SortByReturns(geo_funds), geo_count)
             \o SelectPerGeography(category_funds, count, Tail(constraints))

\* the while loop that fills up from any geography, best returns first
RECURSIVE FillRemaining(_, _, _)
FillRemaining(selected, category_funds, count) ==
  IF Len(selected) < count /\ Len(category_funds) > Len(selected)
  THEN LET remaining == Filter(category_funds,
                          Range(category_funds) \ Range(selected))
       IN  IF Len(remaining) > 0
           THEN FillRemaining(Append(selected, SortByReturns(remaining)[1]),
                              category_funds, count)
           ELSE selected
  ELSE selected

\* the funds one category contributes (the body of the fund_counts loop)
SelectCategory(available_funds, category, count, currency, geography_constraints) ==
  IF count > 0
  THEN LET category_funds ==
             Filter(available_funds,
               {n \in Range(available_funds) : FundRow(n).category = category})
           selected ==
             IF currency = "USD" /\ geography_constraints # <<>>
             THEN FillRemaining(
                    SelectPerGeography(category_funds, count, geography_constraints),
                    category_funds, count)
             ELSE HeadN(SortByReturns(category_funds), count)
       IN  HeadN(selected, count)
  ELSE <<>>

\* the loop over fund_counts.items()
RECURSIVE SelectByCounts(_, _, _, _)
SelectByCounts(available_funds, fund_counts, currency, geography_constraints) ==
  IF fund_counts = <<>> THEN <<>>
  ELSE SelectCategory(available_funds, Head(fund_counts)[1], Head(fund_counts)[2],
                      currency, geography_constraints)
         \o SelectByCounts(available_funds, Tail(fund_counts), currency,
                           geography_constraints)

\* selection from the universe when suggested_funds is not supplied
SelectByCriteria(currency, fund_counts, geography_constraints) ==
  LET of_currency == Filter(FundNames,
                       {n \in Range(FundNames) : FundRow(n).currency = currency})
      available_funds ==
        IF currency = "USD" /\ geography_constraints # <<>>
        THEN Filter(of_currency,
               {n \in Range(of_currency) :
                  FundRow(n).geography \in Keys(geography_constraints)})
        ELSE of_currency
  IN  SelectByCounts(available_funds, fund_counts, currency, geography_constraints)

\* selected_funds of one call: the names of the resolved fund rows, in order.
\* An optional argument is <<>> for None (or an empty dict) and <<v>> for v.
SelectFunds(currency, suggested_funds, fund_counts, geography_constraints) ==
  IF suggested_funds # <<>>
  THEN ResolveSuggested(suggested_funds[1])
  ELSE SelectByCriteria(currency, fund_counts, geography_constraints)

\* ------------------------------------------------------- constraint passes
\* a normalization to a total of 1 instead of 100
RenormalizeToUnit(weights, total) ==
  [k \in DOMAIN weights |-> Round2(RDiv(weights[k], total))]

\* {k: round(v * 100 / total, 2) for k, v in weights.items()}
Renormalize(weights, total) ==
  [k \in DOMAIN weights |-> Round2(RDiv(RMul(weights[k], R(100)), total))]

\* total = sum(...); if total > 0: the renormalized map, else: otherwise
RenormalizeOr(weights, total, otherwise) ==
  IF IsPositive(total) THEN Renormalize(weights, total) ELSE otherwise

\* the closing normalization of the asset and tax-saver passes
RenormalizeIfPositive(adjusted) ==
  RenormalizeOr(adjusted, SumValues(adjusted), adjusted)

\* {fund["name"]: round(100 / len(selected_funds), 2) for fund in selected_funds}
EqualWeights(selected_funds) ==
  [k \in Range(selected_funds) |-> Round2(RDiv(R(100), R(Len(selected_funds))))]

\* the scaling loop with the factor subtracted instead of multiplied
RECURSIVE ScaleFundsMinus(_, _, _)
ScaleFundsMinus(adjusted, fund_list, scale_factor) ==
  IF fund_list = <<>> THEN adjusted
  ELSE ScaleFundsMinus(
         IF Head(fund_list) \in DOMAIN adjusted
         THEN [adjusted EXCEPT ![Head(fund_list)] =
                 RAdd(@, <<-scale_factor[1], scale_factor[2]>>)]
         ELSE adjusted,
         Tail(fund_list), scale_factor)

\* for fund_name in fund_list: if fund_name in adjusted: adjusted[fund_name] *= scale
RECURSIVE ScaleFunds(_, _, _)
ScaleFunds(adjusted, fund_list, scale_factor) ==
  IF fund_list = <<>> THEN adjusted
  ELSE LET f == Head(fund_list)
       IN  ScaleFunds(IF f \in DOMAIN adjusted
                      THEN [adjusted EXCEPT ![f] = RMul(@, scale_factor)]
                      ELSE adjusted,
                      Tail(fund_list), scale_factor)

\* the type a fund is grouped under by the asset pass
AssetTypeOf(name) ==
  IF FundRow(name).type = "taxsaver" THEN "tax_saver" ELSE FundRow(name).type

\* type_weights[asset_type]: the names of the selected funds of that type
FundsOfType(selected_funds, asset_type) ==
  Filter(selected_funds, {n \in Range(selected_funds) : AssetTypeOf(n) = asset_type})

\* the loop over asset_split_targets.items()
\* if len(fund_list) > 0 and current_total > 0: scale the list to the target
ScaleToTarget(adjusted, fund_list, current_total, target_total) ==
  IF Len(fund_list) > 0 /\ IsPositive(current_total)
  THEN ScaleFunds(adjusted, fund_list, RDiv(target_total, current_total))
  ELSE adjusted

\* the loop over asset_split_targets.items(); current_splits comes from the
\* weights the pass was given
RECURSIVE ScaleAssetTypes(_, _, _, _)
ScaleAssetTypes(adjusted, weights_dict, selected_funds, targets) ==
  IF targets = <<>> THEN adjusted
  ELSE ScaleAssetTypes(
         ScaleToTarget(adjusted,
                       FundsOfType(selected_funds, Head(targets)[1]),
                       SumGet(weights_dict, FundsOfType(selected_funds, Head(targets)[1])),
                       R(Head(targets)[2])),
         weights_dict, selected_funds, Tail(targets))

apply_asset_split_constraints(weights_dict, selected_funds, asset_split_targets) ==
  RenormalizeIfPositive(ScaleAssetTypes(weights_dict, weights_dict, selected_funds,
                                        asset_split_targets))

\* geo_weights[geo]: the names of the selected funds of that geography
FundsOfGeo(selected_funds, geo) ==
  Filter(selected_funds, {n \in Range(selected_funds) : FundRow(n).geography = geo})

\* adjusted[fund_name] (created at 0 when missing) += per_fund, for the list
RECURSIVE AddPerFund(_, _, _)
AddPerFund(adjusted, fund_list, per_fund) ==
  IF fund_list = <<>> THEN adjusted
  ELSE LET f == Head(fund_list)
           old == IF f \in DOMAIN adjusted THEN adjusted[f] ELSE Zero
       IN  AddPerFund([k \in DOMAIN adjusted \cup {f} |->
                         IF k = f THEN RAdd(old, per_fund) ELSE adjusted[k]],
                      Tail(fund_list), per_fund)

\* adjusted[fund_name] = per_fund, for the list
SetPerFund(adjusted, fund_list, per_fund) ==
  [k \in DOMAIN adjusted \cup Range(fund_list) |->
     IF k \in Range(fund_list) THEN per_fund ELSE adjusted[k]]

\* first loop: seed the geographies that have a target but no allocation
\* if current_total == 0 and len(fund_list) > 0, under target_pct > 0
SeedGeography(adjusted, fund_list, target_pct, current_total) ==
  IF Len(fund_list) > 0 /\ target_pct > 0 /\ current_total = Zero
  THEN AddPerFund(adjusted, fund_list, RDiv(R(target_pct), R(Len(fund_list))))
  ELSE adjusted

RECURSIVE SeedGeographies(_, _, _, _)
SeedGeographies(adjusted, weights_dict, selected_funds, constraints) ==
  IF constraints = <<>> THEN adjusted
  ELSE SeedGeographies(
         SeedGeography(adjusted,
                       FundsOfGeo(selected_funds, Head(constraints)[1]),
                       Head(constraints)[2],
                       SumGet(weights_dict, FundsOfGeo(selected_funds, Head(constraints)[1]))),
         weights_dict, selected_funds, Tail(constraints))

\* second loop: scale every constrained geography to its target
\* if len(fund_list) > 0: scale to the target, or distribute it equally
ScaleGeography(adjusted, fund_list, current_total, target_total) ==
  IF Len(fund_list) = 0 THEN adjusted
  ELSE IF IsPositive(current_total)
       THEN ScaleFunds(adjusted, fund_list, RDiv(target_total, current_total))
       ELSE SetPerFund(adjusted, fund_list, RDiv(target_total, R(Len(fund_list))))

RECURSIVE ScaleGeographies(_, _, _)
ScaleGeographies(adjusted, selected_funds, constraints) ==
  IF constraints = <<>> THEN adjusted
  ELSE ScaleGeographies(
         ScaleGeography(adjusted,
                        FundsOfGeo(selected_funds, Head(constraints)[1]),
                        SumGet(adjusted, FundsOfGeo(selected_funds, Head(constraints)[1])),
                        R(Head(constraints)[2])),
         selected_funds, Tail(constraints))

\* 0.01 (percent): the weight below which a fund is dropped
SmallWeight ==
  <<1, 100>>

\* 0.1 (percent): the least weight forced on a geography's first fund
ForcedWeight ==
  <<1, 10>>

\* third loop: every active geography keeps a fund above 0.01
\* any(f in adjusted_weights and adjusted_weights[f] > 0.01 for f in fund_list)
HasFund(adjusted, fund_list) ==
  \E i \in 1..Len(fund_list) :
    /\ fund_list[i] \in DOMAIN adjusted
    /\ RLt(SmallWeight, adjusted[fund_list[i]])

\* if not has_fund and len(fund_list) > 0: force the first fund of the list
KeepOne(adjusted, fund_list, target_pct) ==
  IF Len(fund_list) > 0 /\ ~HasFund(adjusted, fund_list)
  THEN [k \in DOMAIN adjusted \cup {fund_list[1]} |->
          IF k = fund_list[1]
          THEN RMax(ForcedWeight, RDiv(R(target_pct), R(Len(fund_list))))
          ELSE adjusted[k]]
  ELSE adjusted

RECURSIVE KeepOnePerGeography(_, _, _, _)
KeepOnePerGeography(adjusted, selected_funds, constraints, active) ==
  IF active = <<>> THEN adjusted
  ELSE KeepOnePerGeography(
         KeepOne(adjusted, FundsOfGeo(selected_funds, Head(active)[1]),
                 GetPct(constraints, Head(active)[1])),
         selected_funds, constraints, Tail(active))

\* weights_to_remove: the names below 0.01 that have a sibling of the same
\* geography above 0.01, or that are no selected fund at all
WeightsToRemove(adjusted, selected_funds) ==
  {fund_name \in DOMAIN adjusted :
     /\ RLt(adjusted[fund_name], SmallWeight)
     /\ \/ fund_name \notin Range(selected_funds)
        \/ \E i \in 1..Len(selected_funds) :
             /\ FundRow(selected_funds[i]).geography = FundRow(fund_name).geography
             /\ selected_funds[i] # fund_name
             /\ selected_funds[i] \in DOMAIN adjusted
             /\ RLt(SmallWeight, adjusted[selected_funds[i]])}

\* active_geos = [geo for geo, pct in geography_constraints.items() if pct > 0]
RECURSIVE ActiveGeos(_)
ActiveGeos(constraints) ==
  IF constraints = <<>> THEN <<>>
  ELSE (IF Head(constraints)[2] > 0 THEN <<Head(constraints)>> ELSE <<>>)
         \o ActiveGeos(Tail(constraints))

\* for fund_name in weights_to_remove: del adjusted_weights[fund_name]
Remove(adjusted, weights_to_remove) ==
  [k \in DOMAIN adjusted \ weights_to_remove |-> adjusted[k]]

Prune(adjusted, selected_funds) ==
  Remove(adjusted, WeightsToRemove(adjusted, selected_funds))

\* the closing normalization of the geography pass
RenormalizeOrEqual(adjusted, selected_funds) ==
  RenormalizeOr(adjusted, SumValues(adjusted), EqualWeights(selected_funds))

\* the geography pass written the way the asset pass is: scale the groups
\* that hold weight, seed nothing, force nothing
RECURSIVE ScaleGeographiesOnly(_, _, _)
ScaleGeographiesOnly(adjusted, selected_funds, constraints) ==
  IF constraints = <<>> THEN adjusted
  ELSE ScaleGeographiesOnly(
         ScaleToTarget(adjusted,
                       FundsOfGeo(selected_funds, Head(constraints)[1]),
                       SumGet(adjusted, FundsOfGeo(selected_funds, Head(constraints)[1])),
                       R(Head(constraints)[2])),
         selected_funds, Tail(constraints))

geography_as_asset_pass(weights_dict, selected_funds, geography_constraints) ==
  RenormalizeIfPositive(
    ScaleGeographiesOnly(weights_dict, selected_funds, geography_constraints))

apply_geography_constraints(weights_dict, selected_funds, geography_constraints) ==
  RenormalizeOrEqual(
    Prune(
      KeepOnePerGeography(
        ScaleGeographies(
          SeedGeographies(weights_dict, weights_dict, selected_funds,
                          geography_constraints),
          selected_funds, geography_constraints),
        selected_funds, geography_constraints, ActiveGeos(geography_constraints)),
      selected_funds),
    selected_funds)

\* tax_saver_funds = [f["name"] for f in selected_funds if f["type"] == "taxsaver"]
TaxSaverFunds(selected_funds) ==
  Filter(selected_funds, {n \in Range(selected_funds) : FundRow(n).type = "taxsaver"})

\* the pass with the closing normalization moved out of the branch, so that it
\* also runs when there is nothing to scale
ScaleTaxSaversThenNormalize(weights_dict, tax_saver_funds, current_total, tax_saver_target_pct) ==
  RenormalizeIfPositive(
    IF Len(tax_saver_funds) > 0 /\ IsPositive(current_total)
    THEN ScaleFunds(weights_dict, tax_saver_funds,
                    RDiv(R(tax_saver_target_pct), current_total))
    ELSE weights_dict)

\* the body of the pass for the tax-saver funds and their current total
ScaleTaxSavers(weights_dict, tax_saver_funds, current_total, tax_saver_target_pct) ==
  IF Len(tax_saver_funds) > 0 /\ IsPositive(current_total)
  THEN RenormalizeIfPositive(
         ScaleFunds(weights_dict, tax_saver_funds,
                    RDiv(R(tax_saver_target_pct), current_total)))
  ELSE weights_dict

apply_tax_saver_constraint(weights_dict, selected_funds, tax_saver_target_pct) ==
  ScaleTaxSavers(weights_dict, TaxSaverFunds(selected_funds),
                 SumGet(weights_dict, TaxSaverFunds(selected_funds)),
                 tax_saver_target_pct)

\* --------------------------------------------------------- model selector
\* A sub-risk bucket token such as "HIGH_LOW" is the sequence of its words,
\* <<"HIGH", "LOW">>; label in token is the substring test on the token.
Labels ==
  {"HIGH", "MEDIUM", "LOW"}

\* "HIGH" in sub_risk_bucket
Contains(sub_risk_bucket, label) ==
  \E i \in 1..Len(sub_risk_bucket) : sub_risk_bucket[i] = label

\* a risk measure label that follows the two targets
RiskMeasureByTarget(volatility_target_pct, drawdown_target_pct) ==
  IF drawdown_target_pct # <<>> THEN "CDaR"
  ELSE IF volatility_target_pct # <<>> /\ volatility_target_pct[1] < 20 THEN "MV"
  ELSE "Variance"

\* the risk measure label chosen from the two targets (optional numbers)
RiskMeasureOf(volatility_target_pct, drawdown_target_pct) ==
  IF drawdown_target_pct # <<>> THEN "Variance"
  ELSE IF volatility_target_pct # <<>> /\ volatility_target_pct[1] < 20 THEN "Variance"
  ELSE "Variance"

\* The policy table of the specification (section 4.1): the objective for a
\* primary bucket and the label in the second half of the sub-risk token.
PolicyTable(primary, secondary) ==
  CASE primary = "HIGH" /\ secondary = "HIGH" -> "max_return"
    [] primary = "HIGH" /\ secondary = "MEDIUM" -> "max_alpha"
    [] primary = "HIGH" /\ secondary = "LOW" -> "max_sharpe"
    [] primary = "MEDIUM" /\ secondary = "HIGH" -> "max_sharpe"
    [] primary = "MEDIUM" /\ secondary = "MEDIUM" -> "risk_parity"
    [] primary = "MEDIUM" /\ secondary = "LOW" -> "risk_parity"
    [] primary = "LOW" /\ secondary = "HIGH" -> "risk_parity"
    [] primary = "LOW" /\ secondary = "MEDIUM" -> "min_volatility"
    [] OTHER -> "min_volatility"

\* the second half of a token: its last word
SecondHalf(sub_risk_bucket) ==
  sub_risk_bucket[Len(sub_risk_bucket)]

\* a selector that reads the second half and defaults to risk_parity
select_by_policy_table(primary_risk_bucket, sub_risk_bucket, volatility_target_pct, drawdown_target_pct) ==
  <<IF SecondHalf(sub_risk_bucket) \in Labels
    THEN PolicyTable(primary_risk_bucket, SecondHalf(sub_risk_bucket))
    ELSE "risk_parity",
    RiskMeasureOf(volatility_target_pct, drawdown_target_pct)>>

\* returns <<model, risk_measure>>
select_optimization_model(primary_risk_bucket, sub_risk_bucket, volatility_target_pct, drawdown_target_pct) ==
  LET risk_measure == RiskMeasureOf(volatility_target_pct, drawdown_target_pct)
  IN  IF primary_risk_bucket = "HIGH"
      THEN IF Contains(sub_risk_bucket, "HIGH") THEN <<"max_return", risk_measure>>
           ELSE IF Contains(sub_risk_bucket, "MEDIUM") THEN <<"max_alpha", risk_measure>>
           ELSE <<"max_sharpe", risk_measure>>
      ELSE IF primary_risk_bucket = "MEDIUM"
      THEN IF Contains(sub_risk_bucket, "HIGH") THEN <<"max_sharpe", risk_measure>>
           ELSE IF Contains(sub_risk_bucket, "MEDIUM") THEN <<"risk_parity", risk_measure>>
           ELSE <<"risk_parity", risk_measure>>
      ELSE IF Contains(sub_risk_bucket, "HIGH") THEN <<"risk_parity", risk_measure>>
           ELSE IF Contains(sub_risk_bucket, "MEDIUM") THEN <<"min_volatility", risk_measure>>
           ELSE <<"min_volatility", risk_measure>>

\* ------------------------------------------------- post-solve normalization
\* min_weight = 0.01, max_weight = 0.95, relaxed_min_weight = 0.005 and
\* min_allocation = 0.005, in thousandths
MinWeightMilli ==
  10

MaxWeightMilli ==
  950

RelaxedMinWeightMilli ==
  5

MinAllocationMilli ==
  5

Milli(n) ==
  Norm(n, 1000)

\* np.maximum(weights_array, min_allocation)
ClampToMinimum(weights_array) ==
  [i \in 1..Len(weights_array) |-> RMax(weights_array[i], Milli(MinAllocationMilli))]

RECURSIVE SumSeq(_)
SumSeq(xs) ==
  IF xs = <<>> THEN Zero ELSE RAdd(Head(xs), SumSeq(Tail(xs)))

\* weights_array / np.sum(weights_array)
DivideAll(weights_array, total) ==
  [i \in 1..Len(weights_array) |-> RDiv(weights_array[i], total)]

NormalizeToOne(weights_array) ==
  DivideAll(weights_array, SumSeq(weights_array))

\* weights_dict[fund_names[idx]] = round(max(0.005, weight) * 100, 2), in index
\* order: a name listed twice keeps the value of its last index
PercentDict(fund_names, weights_array) ==
  [k \in Range(fund_names) |->
     LET idx == CHOOSE i \in 1..Len(fund_names) :
                  /\ fund_names[i] = k
                  /\ \A j \in (i + 1)..Len(fund_names) : fund_names[j] # k
     IN  Round2(RMul(RMax(Milli(MinAllocationMilli), weights_array[idx]), R(100)))]

\* the dict built with the loop stopping one index short
NormalizeAllButLast(fund_names, weights_array) ==
  RenormalizeOrEqual(
    PercentDict(SubSeq(fund_names, 1, Len(fund_names) - 1),
                NormalizeToOne(ClampToMinimum(weights_array))),
    fund_names)

\* lines 420-441: clamp, normalize to 1, build the dict in percent, normalize to 100
NormalizeWeights(fund_names, weights_array) ==
  RenormalizeOrEqual(
    PercentDict(fund_names, NormalizeToOne(ClampToMinimum(weights_array))),
    fund_names)

\* every fund at the relaxed minimum
LastResortMinimum(n_assets) ==
  [i \in 1..n_assets |-> Milli(RelaxedMinWeightMilli)]

\* np.array([max(relaxed_min_weight, 1.0 / n_assets)] * n_assets)
LastResortWeights(n_assets) ==
  [i \in 1..n_assets |-> RMax(Milli(RelaxedMinWeightMilli), RDiv(R(1), R(n_assets)))]

RECURSIVE SumInts(_)
SumInts(xs) ==
  IF xs = <<>> THEN 0 ELSE Head(xs) + SumInts(Tail(xs))

\* the values the model lets a component of result.x take, in thousandths
SolverGrid(lower) ==
  {lower, 1000 - MaxWeightMilli, 500}

\* result.x of a successful minimize under bounds (lower, max_weight): the
\* vectors that meet the bounds and the constraint sum(x) = 1, the first
\* n - 1 components on the grid
SolverVectors(n_assets, lower) ==
  {[i \in 1..n_assets |->
      IF i < n_assets THEN Milli(p[i]) ELSE Milli(1000 - SumInts(p))] :
    p \in {q \in [1..(n_assets - 1) -> SolverGrid(lower)] :
             /\ 1000 - SumInts(q) >= lower
             /\ 1000 - SumInts(q) <= MaxWeightMilli}}

\* -------------------------------------------------------------- risk_folio
\* One call of risk_folio, step by step.  An argument is bound by the step
\* that first reads it (the arguments are never assigned, so this gives the
\* same results as binding them all at the call); until then the variable
\* holds the parameter's default.
VARIABLES
  pc,                     \* position in risk_folio
  currency,
  suggested_funds,        \* <<>> (None or {}) or <<list of fund names>>
  fund_counts,            \* pairs <<category, count>>
  geography_constraints,  \* pairs <<geography, percent>>
  asset_split_targets,    \* pairs <<asset type, percent>>
  tax_saver_target_pct,   \* <<>> (None) or <<percent>>
  selected_funds,         \* names of the resolved fund rows, in order
  min_length,             \* <<>> or <<days>>
  model,
  risk_measure,
  solver_calls,           \* calls of minimize so far
  weights_from,           \* "first", "relaxed" or "last_resort"
  weights_dict,
  result,                 \* the returned dict, <<>> before the return
  raised,                 \* the exception that left risk_folio, "" if none
  fn,                     \* the function applied on its own, "" in a call
  fn_args,
  fn_ret,
  minimize_calls,         \* the calls of minimize: <<objective, lower, upper, outcome>>
  pass_calls,             \* the constraint functions called so far, in order
  coordinator,            \* <<>> or the CoordinatorAgent object
  weights_array,          \* the raw weights the solver step chose, <<>> before
  response,               \* what OptimizationAgent.execute returned, <<>> before
  FUND_DATA,              \* the module global: <<>> (None) or <<frame>>
  generate_calls,         \* calls of generate_dummy_funds so far
  assignments,            \* assignments to FUND_DATA so far
  threads                 \* position of each thread in initialize_fund_data

vars ==
  <<pc, currency, suggested_funds, fund_counts, geography_constraints,
    asset_split_targets, tax_saver_target_pct, selected_funds, min_length,
    model, risk_measure, solver_calls, weights_from, weights_dict, result,
    raised, fn, fn_args, fn_ret, minimize_calls, pass_calls, coordinator,
    weights_array,
    response, FUND_DATA, generate_calls, assignments, threads>>

Currencies ==
  {"INR", "USD"}

\* the spellings a caller lists in suggested_funds
SuggestedNames ==
  {"HDFC Top 100 Fund", " hdfc taxsaver fund ", "Vanguard S&P 500 Index Fund",
   "Nikko AM Japan Equity Fund", "Unknown Fund"}

SuggestedLists ==
  UNION {[1..k -> SuggestedNames] : k \in 0..MaxSuggested}

FundCountSets ==
  {<< <<"large_cap", a>>, <<"debt", b>>, <<"tax_saver", c>> >> :
     a \in 0..MaxCount, b \in 0..1, c \in 0..1}

GeographyConstraintSets ==
  { <<>>,
    << <<"USA", 60>>, <<"Japan", 40>> >>,
    << <<"USA", 100>>, <<"Japan", 0>> >>,
    << <<"USA", 0>>, <<"Japan", 0>> >> }

AssetSplitTargetSets ==
  { <<>>,
    << <<"equity", 60>>, <<"debt", 30>>, <<"tax_saver", 10>> >>,
    << <<"equity", 0>>, <<"debt", 0>>, <<"tax_saver", 0>> >> }

TaxSaverTargets ==
  { <<>>, <<0>>, <<20>> }

PrimaryBuckets ==
  {"LOW", "MEDIUM", "HIGH"}

\* the words of a sub-risk bucket token; "OTHER" is any word that holds no label
Words ==
  {"LOW", "MEDIUM", "HIGH", "OTHER"}

SubBuckets ==
  UNION {[1..k -> Words] : k \in 1..2}

\* sub_risk_bucket as a caller passes it: <<>> for None, <<token>> for a token
SubBucketInputs ==
  {<<>>} \cup {<<token>> : token \in SubBuckets}

OptionalTargets ==
  { <<>>, <<15>>, <<25>> }

\* what the fund universe provider supplies as returns_series
SeriesKinds ==
  {"Series", "list"}

NoCall ==
  /\ fn = ""
  /\ fn_args = <<>>
  /\ fn_ret = <<>>

\* no argument bound, nothing computed
Fresh ==
  /\ currency = ""
  /\ suggested_funds = <<>>
  /\ fund_counts = <<>>
  /\ geography_constraints = <<>>
  /\ asset_split_targets = <<>>
  /\ tax_saver_target_pct = <<>>
  /\ selected_funds = <<>>
  /\ min_length = <<>>
  /\ model = ""
  /\ risk_measure = ""
  /\ solver_calls = 0
  /\ weights_from = ""
  /\ weights_dict = <<>>
  /\ result = <<>>
  /\ raised = ""
  /\ minimize_calls = <<>>
  /\ pass_calls = <<>>
  /\ weights_array = <<>>

\* line 12: FUND_DATA = None; no CoordinatorAgent has been constructed
Unloaded ==
  /\ FUND_DATA = <<>>
  /\ coordinator = <<>>
  /\ generate_calls = 0
  /\ assignments = 0

\* one caller, and no agent in front of risk_folio
Alone ==
  /\ threads = <<>>
  /\ response = <<>>

Init ==
  /\ pc = "call"
  /\ Fresh
  /\ NoCall
  /\ Unloaded
  /\ Alone

\* the no-funds result with an empty weights map beside the error
NoFundsWithEmptyWeights ==
  [error |-> "No funds found matching criteria", weights |-> <<>>]

\* lines 141-142
NoFundsResult ==
  [error |-> "No funds found matching criteria"]

\* the except branch of lines 481-501
FallbackResult(funds, error) ==
  [weights |-> EqualWeights(funds),
   model_used |-> "equal_weight_fallback",
   risk_measure |-> "MV",
   error |-> error,
   optimization_success |-> FALSE,
   total_weight |-> R(100)]

\* the single-fund result reported as an optimized one
SingleFundAsOptimized(fund_names) ==
  [weights |-> [k \in {fund_names[1]} |-> R(100)],
   model_used |-> "single_fund",
   risk_measure |-> "MV",
   error |-> "",
   optimization_success |-> TRUE,
   total_weight |-> R(100)]

\* lines 204-215
SingleFundResult(fund_names) ==
  [weights |-> [k \in {fund_names[1]} |-> R(100)],
   model_used |-> "single_fund",
   risk_measure |-> "MV",
   error |-> "Only one fund selected - cannot optimize. Using 100% allocation.",
   optimization_success |-> FALSE,
   total_weight |-> R(100)]

\* lines 472-479
SuccessResult(weights, model_, risk_measure_) ==
  [weights |-> weights,
   model_used |-> model_,
   risk_measure |-> risk_measure_,
   total_weight |-> SumValues(weights),
   optimization_success |-> TRUE]

\* ----------------------------------------------------- initialize_fund_data
\* A frame built by generate_dummy_funds is named by the ordinal of the call
\* that built it.
\* lines 14-19 run by a single caller without interruption
LoadFundData ==
  IF FUND_DATA = <<>>
  THEN /\ generate_calls' = generate_calls + 1
       /\ FUND_DATA' = <<generate_calls + 1>>
       /\ assignments' = assignments + 1
  ELSE UNCHANGED <<FUND_DATA, generate_calls, assignments>>

\* lines 65-150: load the fund data, resolve the funds; no fund gives the
\* error result
ResolveFunds(cur, sugg, counts, geo) ==
  /\ LoadFundData
  /\ currency' = cur
  /\ suggested_funds' = sugg
  /\ fund_counts' = counts
  /\ geography_constraints' = geo
  /\ selected_funds' = SelectFunds(cur, sugg, counts, geo)
  /\ IF Len(selected_funds') = 0
     THEN /\ result' = NoFundsResult
          /\ pc' = "returned"
     ELSE /\ result' = result
          /\ pc' = "align"
  /\ UNCHANGED <<asset_split_targets, tax_saver_target_pct, min_length, model,
                 risk_measure, solver_calls, weights_from, weights_dict, raised,
                 fn, fn_args, fn_ret, minimize_calls, pass_calls, coordinator, weights_array, response,
                 threads>>

\* a call of risk_folio by a caller of its own
Resolve(cur, sugg, counts, geo) ==
  /\ pc = "call"
  /\ ResolveFunds(cur, sugg, counts, geo)

ResolveSuggestedFunds ==
  \E cur \in Currencies, names \in SuggestedLists :
    Resolve(cur, <<names>>, <<>>, <<>>)

ResolveByCriteria ==
  \E cur \in Currencies, counts \in FundCountSets, geo \in GeographyConstraintSets :
    /\ cur = "INR" => geo = <<>>
    /\ Resolve(cur, <<>>, counts, geo)

\* lines 152-215: read the series, find the common length, align; one fund
\* returns the single-fund result
Align ==
  /\ pc = "align"
  /\ \E kind \in SeriesKinds, days \in 0..MaxDays :
       IF kind # "Series"
       THEN /\ raised' = "invalid returns_series type"
            /\ pc' = "raised"
            /\ UNCHANGED <<min_length, result>>
       ELSE /\ min_length' = <<days>>
            /\ raised' = raised
            /\ IF Len(selected_funds) < 2
               THEN /\ result' = SingleFundResult(selected_funds)
                    /\ pc' = "returned"
               ELSE /\ result' = result
                    /\ pc' = "frame"
  /\ UNCHANGED <<currency, suggested_funds, fund_counts, geography_constraints,
                 asset_split_targets, tax_saver_target_pct, selected_funds, model,
                 risk_measure, solver_calls, weights_from, weights_dict,
                 fn, fn_args, fn_ret, minimize_calls, pass_calls, coordinator, weights_array, response,
                 FUND_DATA, generate_calls, assignments, threads>>

\* lines 217-272: build returns_df; fewer than 2 days raise in the try block
\* and again in its except handler, which nothing catches
BuildFrame ==
  /\ pc = "frame"
  /\ IF min_length[1] < MinFrameDays
     THEN /\ raised' = "Cannot create valid returns DataFrame"
          /\ pc' = "raised"
     ELSE /\ raised' = raised
          /\ pc' = "select"
  /\ UNCHANGED <<currency, suggested_funds, fund_counts, geography_constraints,
                 asset_split_targets, tax_saver_target_pct, selected_funds,
                 min_length, model, risk_measure, solver_calls, weights_from,
                 weights_dict, result, fn, fn_args, fn_ret, minimize_calls, pass_calls, coordinator, weights_array, response,
                 FUND_DATA, generate_calls, assignments, threads>>

\* lines 276-304: validate the frame, estimate, select the model.  A
\* sub_risk_bucket of None makes the substring test raise TypeError, which the
\* outer except turns into the fallback.
SelectModel ==
  /\ pc = "select"
  /\ IF min_length[1] < MinHistoryDays
     THEN /\ result' = FallbackResult(selected_funds, "Insufficient historical data")
          /\ pc' = "returned"
          /\ UNCHANGED <<model, risk_measure>>
     ELSE \E primary \in PrimaryBuckets, sub \in SubBucketInputs,
             vol \in OptionalTargets, dd \in OptionalTargets :
            IF sub = <<>>
            THEN /\ result' = FallbackResult(selected_funds,
                                 "argument of type 'NoneType' is not iterable")
                 /\ pc' = "returned"
                 /\ UNCHANGED <<model, risk_measure>>
            ELSE LET chosen == select_optimization_model(primary, sub[1], vol, dd)
                 IN  /\ model' = chosen[1]
                     /\ risk_measure' = chosen[2]
                     /\ result' = result
                     /\ pc' = "solve"
  /\ UNCHANGED <<currency, suggested_funds, fund_counts, geography_constraints,
                 asset_split_targets, tax_saver_target_pct, selected_funds,
                 min_length, solver_calls, weights_from, weights_dict, raised,
                 fn, fn_args, fn_ret, minimize_calls, pass_calls, coordinator, weights_array, response,
                 FUND_DATA, generate_calls, assignments, threads>>

\* minimize(objective of the model, x0, bounds=bounds, ...) of lines 323-390
\* with what it did: raised, or returned with result.success True or False
FirstCall(objective, outcome) ==
  <<objective, MinWeightMilli, MaxWeightMilli, outcome>>

\* minimize(negative_sharpe_relaxed, x0, bounds=relaxed_bounds, ...) of line 409
RelaxedCall(outcome) ==
  <<"max_sharpe", RelaxedMinWeightMilli, MaxWeightMilli, outcome>>

\* lines 306-394 and 420-441: the first minimize, bounds (0.01, 0.95).  It
\* raises (the outer except returns the fallback), reports success (its x is
\* normalized into weights_dict) or reports failure (the retry follows).
Solve ==
  /\ pc = "solve"
  /\ solver_calls' = solver_calls + 1
  /\ \/ /\ minimize_calls' = Append(minimize_calls, FirstCall(model, "raised"))
        /\ result' = FallbackResult(selected_funds, "solver error")
        /\ pc' = "returned"
        /\ UNCHANGED <<weights_from, weights_dict, weights_array>>
     \/ \E x \in SolverVectors(Len(selected_funds), MinWeightMilli) :
          /\ minimize_calls' = Append(minimize_calls, FirstCall(model, "success"))
          /\ weights_array' = x
          /\ weights_dict' = NormalizeWeights(selected_funds, x)
          /\ weights_from' = "first"
          /\ pc' = "asset"
          /\ result' = result
     \/ /\ minimize_calls' = Append(minimize_calls, FirstCall(model, "failure"))
        /\ pc' = "retry"
        /\ UNCHANGED <<weights_from, weights_dict, weights_array, result>>
  /\ UNCHANGED <<currency, suggested_funds, fund_counts, geography_constraints,
                 asset_split_targets, tax_saver_target_pct, selected_funds,
                 min_length, model, risk_measure, raised, fn, fn_args, fn_ret, pass_calls, coordinator,
                 response, FUND_DATA, generate_calls, assignments, threads>>

\* lines 396-441: the retry with max_sharpe under bounds (0.005, 0.95); when it
\* fails or raises the weights are the last-resort equal weights
Retry ==
  /\ pc = "retry"
  /\ solver_calls' = solver_calls + 1
  /\ \/ \E x \in SolverVectors(Len(selected_funds), RelaxedMinWeightMilli) :
          /\ minimize_calls' = Append(minimize_calls, RelaxedCall("success"))
          /\ weights_array' = x
          /\ weights_dict' = NormalizeWeights(selected_funds, x)
          /\ weights_from' = "relaxed"
     \/ \E outcome \in {"failure", "raised"} :
          /\ minimize_calls' = Append(minimize_calls, RelaxedCall(outcome))
          /\ weights_array' = LastResortWeights(Len(selected_funds))
          /\ weights_dict' = NormalizeWeights(selected_funds, weights_array')
          /\ weights_from' = "last_resort"
  /\ pc' = "asset"
  /\ UNCHANGED <<currency, suggested_funds, fund_counts, geography_constraints,
                 asset_split_targets, tax_saver_target_pct, selected_funds,
                 min_length, model, risk_measure, result, raised,
                 fn, fn_args, fn_ret, pass_calls, coordinator, response, FUND_DATA, generate_calls,
                 assignments, threads>>

\* lines 445-449
AssetSplitPass ==
  /\ pc = "asset"
  /\ \E targets \in AssetSplitTargetSets :
       /\ asset_split_targets' = targets
       /\ weights_dict' =
            IF targets # <<>>
            THEN apply_asset_split_constraints(weights_dict, selected_funds, targets)
            ELSE weights_dict
       /\ pass_calls' =
            IF targets # <<>>
            THEN Append(pass_calls, "apply_asset_split_constraints")
            ELSE pass_calls
  /\ pc' = "geography"
  /\ UNCHANGED <<currency, suggested_funds, fund_counts, geography_constraints,
                 tax_saver_target_pct, selected_funds, min_length, model,
                 risk_measure, solver_calls, weights_from, result, raised,
                 fn, fn_args, fn_ret, minimize_calls, coordinator, weights_array, response,
                 FUND_DATA, generate_calls, assignments, threads>>

\* lines 452-456; geography_constraints is read here for the first time when
\* the funds were suggested
GeographyPass ==
  /\ pc = "geography"
  /\ IF currency = "USD"
     THEN \E geo \in GeographyConstraintSets :
            /\ suggested_funds = <<>> => geo = geography_constraints
            /\ geography_constraints' = geo
            /\ weights_dict' =
                 IF geo # <<>>
                 THEN apply_geography_constraints(weights_dict, selected_funds, geo)
                 ELSE weights_dict
            /\ pass_calls' =
                 IF geo # <<>>
                 THEN Append(pass_calls, "apply_geography_constraints")
                 ELSE pass_calls
     ELSE UNCHANGED <<geography_constraints, weights_dict, pass_calls>>
  /\ pc' = "tax"
  /\ UNCHANGED <<currency, suggested_funds, fund_counts, asset_split_targets,
                 tax_saver_target_pct, selected_funds, min_length, model,
                 risk_measure, solver_calls, weights_from, result, raised,
                 fn, fn_args, fn_ret, minimize_calls, coordinator, weights_array, response,
                 FUND_DATA, generate_calls, assignments, threads>>

\* the tax-saver pass without the test of the currency
TaxSaverPassAnyCurrency ==
  /\ pc = "tax"
  /\ IF currency # ""
     THEN \E target \in TaxSaverTargets :
            /\ tax_saver_target_pct' = target
            /\ weights_dict' =
                 IF target # <<>> /\ target[1] > 0
                 THEN apply_tax_saver_constraint(weights_dict, selected_funds, target[1])
                 ELSE weights_dict
            /\ pass_calls' =
                 IF target # <<>> /\ target[1] > 0
                 THEN Append(pass_calls, "apply_tax_saver_constraint")
                 ELSE pass_calls
     ELSE UNCHANGED <<tax_saver_target_pct, weights_dict, pass_calls>>
  /\ result' = SuccessResult(weights_dict', model, risk_measure)
  /\ pc' = "returned"
  /\ UNCHANGED <<currency, suggested_funds, fund_counts, geography_constraints,
                 asset_split_targets, selected_funds, min_length, model,
                 risk_measure, solver_calls, weights_from, raised,
                 fn, fn_args, fn_ret, minimize_calls, coordinator, weights_array, response,
                 FUND_DATA, generate_calls, assignments, threads>>

\* lines 459-479: the tax-saver pass and the return of the result
TaxSaverPass ==
  /\ pc = "tax"
  /\ IF currency = "INR"
     THEN \E target \in TaxSaverTargets :
            /\ tax_saver_target_pct' = target
            /\ weights_dict' =
                 IF target # <<>> /\ target[1] > 0
                 THEN apply_tax_saver_constraint(weights_dict, selected_funds, target[1])
                 ELSE weights_dict
            /\ pass_calls' =
                 IF target # <<>> /\ target[1] > 0
                 THEN Append(pass_calls, "apply_tax_saver_constraint")
                 ELSE pass_calls
     ELSE UNCHANGED <<tax_saver_target_pct, weights_dict, pass_calls>>
  /\ result' = SuccessResult(weights_dict', model, risk_measure)
  /\ pc' = "returned"
  /\ UNCHANGED <<currency, suggested_funds, fund_counts, geography_constraints,
                 asset_split_targets, selected_funds, min_length, model,
                 risk_measure, solver_calls, weights_from, raised,
                 fn, fn_args, fn_ret, minimize_calls, coordinator, weights_array, response,
                 FUND_DATA, generate_calls, assignments, threads>>

Next ==
  \/ ResolveSuggestedFunds
  \/ ResolveByCriteria
  \/ Align
  \/ BuildFrame
  \/ SelectModel
  \/ Solve
  \/ Retry
  \/ AssetSplitPass
  \/ GeographyPass
  \/ TaxSaverPass

Spec ==
  Init /\ [][Next]_vars

\* ------------------------------------------- select_optimization_model alone
\* A direct call of the selector: fn_args holds the four arguments, fn_ret
\* becomes <<"returned", <<model, risk_measure>>>> or <<"raised", exception>>.
InitSelect ==
  /\ pc = "function"
  /\ Fresh
  /\ fn = "select_optimization_model"
  /\ fn_args \in PrimaryBuckets \X SubBucketInputs \X OptionalTargets \X OptionalTargets
  /\ fn_ret = <<>>
  /\ Unloaded
  /\ Alone

CallSelect ==
  /\ fn = "select_optimization_model"
  /\ fn_ret = <<>>
  /\ fn_ret' =
       IF fn_args[2] = <<>>
       THEN <<"raised", "TypeError">>
       ELSE <<"returned", select_optimization_model(fn_args[1], fn_args[2][1],
                                                    fn_args[3], fn_args[4])>>
  /\ UNCHANGED <<pc, currency, suggested_funds, fund_counts, geography_constraints,
                 asset_split_targets, tax_saver_target_pct, selected_funds,
                 min_length, model, risk_measure, solver_calls, weights_from,
                 weights_dict, result, raised, fn, fn_args, minimize_calls, pass_calls, coordinator, weights_array, response,
                 FUND_DATA, generate_calls, assignments, threads>>

SpecSelect ==
  InitSelect /\ [][CallSelect]_vars

\* ----------------------------------------- apply_geography_constraints alone
\* A direct call of the geography pass on any weights map: each selected fund
\* is absent from the map or carries one of InputWeights (percent).
GeoFundLists ==
  { <<"Vanguard S&P 500 Index Fund", "Nikko AM Japan Equity Fund">>,
    <<"Vanguard S&P 500 Index Fund", "Fidelity 500 Index Fund",
      "Nikko AM Japan Equity Fund">>,
    <<"Nikko AM Japan Equity Fund", "HDFC Top 100 Fund">>,
    <<"Fidelity 500 Index Fund", "Fidelity 500 Index Fund">> }

InputWeights ==
  {Zero, <<1, 200>>, R(30), R(100)}

\* every map from a subset of the listed names to InputWeights
WeightMaps(fund_list) ==
  UNION {[present -> InputWeights] : present \in SUBSET Range(fund_list)}

GeoTargets ==
  {0, 1, 40, 100}

GeoConstraintInputs ==
  {<< <<"USA", a>>, <<"Japan", b>> >> : a \in GeoTargets, b \in GeoTargets}
    \cup {<< <<"Japan", b>> >> : b \in GeoTargets}

InitGeo ==
  /\ pc = "function"
  /\ Fresh
  /\ fn = "apply_geography_constraints"
  /\ \E fund_list \in GeoFundLists, constraints \in GeoConstraintInputs :
       \E weights \in WeightMaps(fund_list) :
         fn_args = <<weights, fund_list, constraints>>
  /\ fn_ret = <<>>
  /\ Unloaded
  /\ Alone

CallGeo ==
  /\ fn = "apply_geography_constraints"
  /\ fn_ret = <<>>
  /\ fn_ret' = <<"returned",
                 apply_geography_constraints(fn_args[1], fn_args[2], fn_args[3])>>
  /\ UNCHANGED <<pc, currency, suggested_funds, fund_counts, geography_constraints,
                 asset_split_targets, tax_saver_target_pct, selected_funds,
                 min_length, model, risk_measure, solver_calls, weights_from,
                 weights_dict, result, raised, fn, fn_args, minimize_calls, pass_calls, coordinator, weights_array, response,
                 FUND_DATA, generate_calls, assignments, threads>>

SpecGeo ==
  InitGeo /\ [][CallGeo]_vars

\* ----------------------------------------- initialize_fund_data, concurrently
\* MaxThreads threads call initialize_fund_data at once (the first requests of
\* a threaded server).  threads[t] = <<position, frame>>: the position of
\* thread t in lines 14-19 and the frame it holds or has returned (0: none).
\* The interpreter may switch threads between any two of the steps.
InitLoad ==
  /\ pc = "function"
  /\ Fresh
  /\ Unloaded
  /\ response = <<>>
  /\ fn = "initialize_fund_data"
  /\ fn_args = <<>>
  /\ fn_ret = <<>>
  /\ threads = [t \in 1..MaxThreads |-> <<"call", 0>>]

LoadUnchanged ==
  UNCHANGED <<pc, currency, suggested_funds, fund_counts, geography_constraints,
              asset_split_targets, tax_saver_target_pct, selected_funds,
              min_length, model, risk_measure, solver_calls, weights_from,
              weights_dict, result, raised, fn, fn_args, fn_ret, minimize_calls, pass_calls, coordinator,
              weights_array, response>>

\* line 17: if FUND_DATA is None
CheckLoaded(t) ==
  /\ threads[t][1] = "call"
  /\ threads' = [threads EXCEPT ![t] =
                   <<IF FUND_DATA = <<>> THEN "generate" ELSE "return", 0>>]
  /\ UNCHANGED <<FUND_DATA, generate_calls, assignments>>
  /\ LoadUnchanged

\* line 18, right-hand side: generate_dummy_funds() builds a new frame
Generate(t) ==
  /\ threads[t][1] = "generate"
  /\ generate_calls' = generate_calls + 1
  /\ threads' = [threads EXCEPT ![t] = <<"assign", generate_calls + 1>>]
  /\ UNCHANGED <<FUND_DATA, assignments>>
  /\ LoadUnchanged

\* line 18, the store into the global
Assign(t) ==
  /\ threads[t][1] = "assign"
  /\ FUND_DATA' = <<threads[t][2]>>
  /\ assignments' = assignments + 1
  /\ threads' = [threads EXCEPT ![t] = <<"return", 0>>]
  /\ UNCHANGED generate_calls
  /\ LoadUnchanged

\* line 19: return FUND_DATA
Return(t) ==
  /\ threads[t][1] = "return"
  /\ threads' = [threads EXCEPT ![t] = <<"done", FUND_DATA[1]>>]
  /\ UNCHANGED <<FUND_DATA, generate_calls, assignments>>
  /\ LoadUnchanged

LoadNext ==
  \/ \E t \in 1..MaxThreads : CheckLoaded(t)
  \/ \E t \in 1..MaxThreads : Generate(t)
  \/ \E t \in 1..MaxThreads : Assign(t)
  \/ \E t \in 1..MaxThreads : Return(t)

SpecLoad ==
  InitLoad /\ [][LoadNext]_vars

\* ------------------------------------------- the closing normalization alone
\* The normalization that ends the asset, geography and tax-saver passes,
\* applied to a map of two-decimal weights and then to its own result.
\* fn_ret grows from <<>> to <<once>> to <<once, twice>>.
RenormFundLists ==
  { <<"HDFC Top 100 Fund", "HDFC TaxSaver Fund">>,
    <<"HDFC Top 100 Fund", "HDFC TaxSaver Fund", "HDFC Corporate Bond Fund">> }

\* weights in hundredths of a percent
Hundredths ==
  {0, 1, 50, 3333, 3334, 5000, 6667, 9999, 10000}

InitRenorm ==
  /\ pc = "function"
  /\ Fresh
  /\ Unloaded
  /\ Alone
  /\ fn = "renormalize"
  /\ \E fund_list \in RenormFundLists :
       \E hundredths \in [Range(fund_list) -> Hundredths] :
         fn_args = <<[k \in Range(fund_list) |-> Norm(hundredths[k], 100)], fund_list>>
  /\ fn_ret = <<>>

RenormUnchanged ==
  UNCHANGED <<pc, currency, suggested_funds, fund_counts, geography_constraints,
              asset_split_targets, tax_saver_target_pct, selected_funds,
              min_length, model, risk_measure, solver_calls, weights_from,
              weights_dict, result, raised, fn, fn_args, minimize_calls, pass_calls, coordinator,
              weights_array, response, FUND_DATA, generate_calls, assignments,
              threads>>

\* lines 535-538 (666-669 are the same statements)
RenormalizeOnce ==
  /\ fn = "renormalize"
  /\ fn_ret = <<>>
  /\ fn_ret' = <<RenormalizeIfPositive(fn_args[1])>>
  /\ RenormUnchanged

RenormalizeAgain ==
  /\ fn = "renormalize"
  /\ Len(fn_ret) = 1
  /\ fn_ret' = Append(fn_ret, RenormalizeIfPositive(fn_ret[1]))
  /\ RenormUnchanged

SpecRenorm ==
  InitRenorm /\ [][RenormalizeOnce \/ RenormalizeAgain]_vars

\* ------------------------------------------------ OptimizationAgent.execute
\* execute validates the context, waits for the user's confirmation, calls
\* risk_folio with the suggested funds of the context and turns the result
\* into a response.  A response is a record: its text (by heading), the
\* missing parameters it lists, the error text and the weights it shows
\* (<<>> or <<map>>) and its optimization_result (<<>> or <<result>>).
MissingKeys ==
  {"currency", "primary_risk_bucket", "sub_risk_bucket", "fund_counts",
   "volatility_target_pct or drawdown_target_pct", "suggested_funds"}

UserMessages ==
  {"yes", "please optimize", "what does this mean?"}

\* any(phrase in user_lower for phrase in ["optimize", "yes", ...])
ShouldOptimize(user_message) ==
  user_message \in {"yes", "please optimize"}

AgentResponse(text, missing, error, weights, optimization_result) ==
  [text |-> text, missing |-> missing, error |-> error, weights |-> weights,
   optimization_result |-> optimization_result]

InitAgent ==
  /\ pc = "agent"
  /\ Fresh
  /\ NoCall
  /\ Unloaded
  /\ threads = <<>>
  /\ response = <<>>

AgentUnchanged ==
  UNCHANGED <<currency, suggested_funds, fund_counts, geography_constraints,
              asset_split_targets, tax_saver_target_pct, selected_funds,
              min_length, model, risk_measure, solver_calls, weights_from,
              weights_dict, result, raised, fn, fn_args, fn_ret, minimize_calls, pass_calls, coordinator,
              weights_array, FUND_DATA, generate_calls, assignments, threads>>

\* lines 102-157: a context with missing parameters is answered with their
\* list, an unconfirmed request with the summary; otherwise the payload is built
AgentValidate ==
  /\ pc = "agent"
  /\ \E missing \in SUBSET MissingKeys, user_message \in UserMessages :
       IF missing # {}
       THEN /\ response' = <<AgentResponse("Cannot Optimize Yet", missing, "", <<>>, <<>>)>>
            /\ pc' = "responded"
       ELSE IF ~ShouldOptimize(user_message)
       THEN /\ response' = <<AgentResponse("Portfolio Summary", {}, "", <<>>, <<>>)>>
            /\ pc' = "responded"
       ELSE /\ response' = response
            /\ pc' = "payload"
  /\ AgentUnchanged

\* lines 158-166: risk_folio(**payload) with the suggested funds of the context,
\* which validation has found non-empty
AgentCall ==
  /\ pc = "payload"
  /\ \E cur \in Currencies, names \in SuggestedLists :
       ResolveFunds(cur, <<names>>, <<>>, <<>>)

\* lines 168-341: a result with an error is answered with the error alone;
\* any other result is shown in full and passed on; an exception of risk_folio
\* is answered with its text
AgentRespond ==
  /\ pc \in {"returned", "raised"}
  /\ response = <<>>
  /\ response' =
       IF pc = "raised"
       THEN <<AgentResponse("Optimization failed", {}, raised, <<>>, <<>>)>>
       ELSE IF "error" \in DOMAIN result /\ result.error # ""
       THEN <<AgentResponse("Optimization issue", {}, result.error, <<>>, <<>>)>>
       ELSE <<AgentResponse("Optimized Portfolio Weights", {}, "",
                            <<result.weights>>, <<result>>)>>
  /\ pc' = "responded"
  /\ AgentUnchanged

AgentNext ==
  \/ AgentValidate
  \/ AgentCall
  \/ Align
  \/ BuildFrame
  \/ SelectModel
  \/ Solve
  \/ Retry
  \/ AssetSplitPass
  \/ GeographyPass
  \/ TaxSaverPass
  \/ AgentRespond

SpecAgent ==
  InitAgent /\ [][AgentNext]_vars

\* --------------------------------------- apply_asset_split_constraints alone
\* A direct call of the asset pass on any weights map, as risk_folio calls it
\* with the funds it resolved (a suggested fund may be listed twice).
AssetFundLists ==
  { <<"HDFC Top 100 Fund", "HDFC Corporate Bond Fund">>,
    <<"HDFC Top 100 Fund", "HDFC Corporate Bond Fund", "HDFC TaxSaver Fund">>,
    <<"Vanguard S&P 500 Index Fund", "Fidelity 500 Index Fund",
      "HDFC Corporate Bond Fund">>,
    <<"Vanguard S&P 500 Index Fund", "Vanguard S&P 500 Index Fund",
      "HDFC Corporate Bond Fund">> }

AssetTargets ==
  {0, 40, 60}

AssetTargetInputs ==
  {<< <<"equity", a>>, <<"debt", b>> >> : a \in AssetTargets, b \in AssetTargets}
    \cup {<< <<"equity", a>>, <<"debt", b>>, <<"tax_saver", 10>> >> :
            a \in AssetTargets, b \in AssetTargets}

InitAsset ==
  /\ pc = "function"
  /\ Fresh
  /\ Unloaded
  /\ Alone
  /\ fn = "apply_asset_split_constraints"
  /\ \E fund_list \in AssetFundLists, targets \in AssetTargetInputs :
       \E weights \in WeightMaps(fund_list) :
         fn_args = <<weights, fund_list, targets>>
  /\ fn_ret = <<>>

CallAsset ==
  /\ fn = "apply_asset_split_constraints"
  /\ fn_ret = <<>>
  /\ fn_ret' = <<"returned",
                 apply_asset_split_constraints(fn_args[1], fn_args[2], fn_args[3])>>
  /\ UNCHANGED <<pc, currency, suggested_funds, fund_counts, geography_constraints,
                 asset_split_targets, tax_saver_target_pct, selected_funds,
                 min_length, model, risk_measure, solver_calls, weights_from,
                 weights_dict, result, raised, fn, fn_args, minimize_calls, pass_calls, coordinator,
                 weights_array, response, FUND_DATA, generate_calls, assignments,
                 threads>>

SpecAsset ==
  InitAsset /\ [][CallAsset]_vars

\* ------------------------------------------- apply_tax_saver_constraint alone
\* One call of apply_tax_saver_constraint on maps the earlier steps of
\* risk_folio can hand it: a weight per name, names missing, a fund listed twice.
TaxFundLists ==
  { <<"HDFC TaxSaver Fund", "HDFC Top 100 Fund">>,
    <<"HDFC Top 100 Fund", "HDFC Corporate Bond Fund">>,
    <<"HDFC Top 100 Fund", "HDFC Corporate Bond Fund", "HDFC TaxSaver Fund">>,
    <<"HDFC TaxSaver Fund", "HDFC TaxSaver Fund", "HDFC Top 100 Fund">> }

TaxWeights ==
  {Zero, R(5), R(30), R(95)}

TaxTargets ==
  {1, 20, 50, 99, 100}

InitTax ==
  /\ pc = "function"
  /\ Fresh
  /\ fn = "apply_tax_saver_constraint"
  /\ \E fund_list \in TaxFundLists, target \in TaxTargets :
       \E present \in SUBSET Range(fund_list) :
         \E weights \in [present -> TaxWeights] :
           fn_args = <<weights, fund_list, target>>
  /\ fn_ret = <<>>
  /\ Unloaded
  /\ Alone

CallTax ==
  /\ fn = "apply_tax_saver_constraint"
  /\ fn_ret = <<>>
  /\ fn_ret' = <<"returned",
                 apply_tax_saver_constraint(fn_args[1], fn_args[2], fn_args[3])>>
  /\ UNCHANGED <<pc, currency, suggested_funds, fund_counts, geography_constraints,
                 asset_split_targets, tax_saver_target_pct, selected_funds,
                 min_length, model, risk_measure, solver_calls, weights_from,
                 weights_dict, result, raised, fn, fn_args, minimize_calls, pass_calls, coordinator,
                 weights_array, response, FUND_DATA, generate_calls, assignments,
                 threads>>

SpecTax ==
  InitTax /\ [][CallTax]_vars

\* ------------------------------------------------ the max_sharpe objective
\* negative_sharpe and negative_sharpe_relaxed as functions of the two numbers
\* they compute from the weights: portfolio_return = np.dot(weights,
\* expected_returns) and portfolio_vol = np.sqrt(weights' cov_matrix weights).
\* rf = 0.03
rf ==
  <<3, 100>>

\* lines 326-332
negative_sharpe(portfolio_return, portfolio_vol) ==
  IF RLt(portfolio_vol, <<1, 1000000>>)
  THEN R(-1000)
  ELSE RMul(R(-1), RDiv(RAdd(portfolio_return, RMul(R(-1), rf)), portfolio_vol))

\* lines 401-407
negative_sharpe_relaxed(portfolio_return, portfolio_vol) ==
  IF RLt(portfolio_vol, <<1, 1000000>>)
  THEN R(-1000)
  ELSE RMul(R(-1), RDiv(RAdd(portfolio_return, RMul(R(-1), rf)), portfolio_vol))

\* annualized portfolio returns, from a loss of half to a gain of half
PortfolioReturns ==
  {Norm(n, 100) : n \in {-50, -10, 0, 2, 3, 4, 10, 20, 50}}

\* portfolio volatilities on both sides of 1e-6
PortfolioVols ==
  {Zero, <<1, 2000000>>, <<1, 1000000>>, <<1, 1000>>, <<1, 10>>, <<1, 2>>}

InitSharpe ==
  /\ pc = "function"
  /\ Fresh
  /\ fn \in {"negative_sharpe", "negative_sharpe_relaxed"}
  /\ \E portfolio_return \in PortfolioReturns, portfolio_vol \in PortfolioVols :
       fn_args = <<portfolio_return, portfolio_vol>>
  /\ fn_ret = <<>>
  /\ Unloaded
  /\ Alone

CallSharpe ==
  /\ fn \in {"negative_sharpe", "negative_sharpe_relaxed"}
  /\ fn_ret = <<>>
  /\ fn_ret' = <<"returned",
                 IF fn = "negative_sharpe"
                 THEN negative_sharpe(fn_args[1], fn_args[2])
                 ELSE negative_sharpe_relaxed(fn_args[1], fn_args[2])>>
  /\ UNCHANGED <<pc, currency, suggested_funds, fund_counts, geography_constraints,
                 asset_split_targets, tax_saver_target_pct, selected_funds,
                 min_length, model, risk_measure, solver_calls, weights_from,
                 weights_dict, result, raised, fn, fn_args, minimize_calls,
                 pass_calls, coordinator, weights_array, response, FUND_DATA, generate_calls,
                 assignments, threads>>

SpecSharpe ==
  InitSharpe /\ [][CallSharpe]_vars

\* ------------------------------------------ fund selection, loop by loop
\* Lines 67-139 of risk_folio with every pass of the fund_counts loop and of
\* the while loop as a step.  fn_args = <<currency, suggested_funds,
\* fund_counts, geography_constraints>>; fn_ret is <<"for", selected_funds, i>>
\* before the i-th item of fund_counts, <<"while", selected_funds, i, selected>>
\* at the test of the while loop, <<"returned", selected_funds>> after line 139.
\* available_funds of lines 90-96
AvailableFunds(currency_, constraints) ==
  Filter(FundNames,
    {n \in Range(FundNames) :
       /\ FundRow(n).currency = currency_
       /\ (currency_ = "USD" /\ constraints # <<>>) =>
            FundRow(n).geography \in Keys(constraints)})

\* category_funds of line 107
CategoryFunds(available_funds, category) ==
  Filter(available_funds,
    {n \in Range(available_funds) : FundRow(n).category = category})

InitFunds ==
  /\ pc = "function"
  /\ Fresh
  /\ fn = "select_funds"
  /\ \E currency_ \in Currencies, constraints \in GeographyConstraintSets :
       \E suggested \in {<<>>, << <<>> >>, << <<"Fidelity 500 Index Fund">> >>},
          large_cap \in 0..(MaxCount + 2), debt \in 0..1 :
         fn_args = <<currency_, suggested,
                     << <<"large_cap", large_cap>>, <<"debt", debt>> >>,
                     constraints>>
  /\ fn_ret = <<>>
  /\ Unloaded
  /\ Alone

\* the steps of the selection touch nothing but their own position and lists
FundsUnchanged ==
  /\ fn = "select_funds"
  /\ UNCHANGED <<pc, currency, suggested_funds, fund_counts, geography_constraints,
                 asset_split_targets, tax_saver_target_pct, selected_funds,
                 min_length, model, risk_measure, solver_calls, weights_from,
                 weights_dict, result, raised, fn, fn_args, minimize_calls,
                 pass_calls, coordinator, weights_array, response, FUND_DATA, generate_calls,
                 assignments, threads>>

\* line 70: the suggested funds, or the start of the fund_counts loop
SelectStart ==
  /\ fn_ret = <<>>
  /\ fn_ret' = IF fn_args[2] # <<>>
               THEN <<"returned", ResolveSuggested(fn_args[2][1])>>
               ELSE <<"for", <<>>, 1>>
  /\ FundsUnchanged

\* lines 98-117 and 134-139: one item of fund_counts, up to the while loop
\* when the geographies are constrained
NextCategory ==
  /\ fn_ret # <<>> /\ fn_ret[1] = "for"
  /\ fn_ret[3] <= Len(fn_args[3])
  /\ LET count == fn_args[3][fn_ret[3]][2]
         category_funds ==
           CategoryFunds(AvailableFunds(fn_args[1], fn_args[4]),
                         fn_args[3][fn_ret[3]][1])
     IN  fn_ret' =
           IF count <= 0 THEN <<"for", fn_ret[2], fn_ret[3] + 1>>
           ELSE IF fn_args[1] = "USD" /\ fn_args[4] # <<>>
           THEN <<"while", fn_ret[2], fn_ret[3],
                  SelectPerGeography(category_funds, count, fn_args[4])>>
           ELSE <<"for",
                  fn_ret[2] \o HeadN(HeadN(SortByReturns(category_funds), count), count),
                  fn_ret[3] + 1>>
  /\ FundsUnchanged

\* a pass of the while loop that takes the best fund of the category instead
\* of the best remaining one
FillStepFromCategory ==
  /\ fn_ret # <<>> /\ fn_ret[1] = "while"
  /\ LET count == fn_args[3][fn_ret[3]][2]
         category_funds ==
           CategoryFunds(AvailableFunds(fn_args[1], fn_args[4]),
                         fn_args[3][fn_ret[3]][1])
     IN  /\ Len(fn_ret[4]) < count /\ Len(category_funds) > Len(fn_ret[4])
         /\ fn_ret' = <<"while", fn_ret[2], fn_ret[3],
                        Append(fn_ret[4], SortByReturns(category_funds)[1])>>
  /\ FundsUnchanged

\* lines 129-133: one pass of the while loop; when remaining is empty the
\* pass changes nothing
FillStep ==
  /\ fn_ret # <<>> /\ fn_ret[1] = "while"
  /\ LET count == fn_args[3][fn_ret[3]][2]
         category_funds ==
           CategoryFunds(AvailableFunds(fn_args[1], fn_args[4]),
                         fn_args[3][fn_ret[3]][1])
         remaining == Filter(category_funds, Range(category_funds) \ Range(fn_ret[4]))
     IN  /\ Len(fn_ret[4]) < count /\ Len(category_funds) > Len(fn_ret[4])
         /\ fn_ret' =
              IF Len(remaining) > 0
              THEN <<"while", fn_ret[2], fn_ret[3],
                     Append(fn_ret[4], SortByReturns(remaining)[1])>>
              ELSE fn_ret
  /\ FundsUnchanged

\* lines 128 and 139: the test of the while loop fails; selected[:count] is
\* appended and the fund_counts loop goes on
FillExit ==
  /\ fn_ret # <<>> /\ fn_ret[1] = "while"
  /\ LET count == fn_args[3][fn_ret[3]][2]
         category_funds ==
           CategoryFunds(AvailableFunds(fn_args[1], fn_args[4]),
                         fn_args[3][fn_ret[3]][1])
     IN  /\ ~(Len(fn_ret[4]) < count /\ Len(category_funds) > Len(fn_ret[4]))
         /\ fn_ret' = <<"for", fn_ret[2] \o HeadN(fn_ret[4], count), fn_ret[3] + 1>>
  /\ FundsUnchanged

\* the fund_counts loop is exhausted
SelectDone ==
  /\ fn_ret # <<>> /\ fn_ret[1] = "for"
  /\ fn_ret[3] > Len(fn_args[3])
  /\ fn_ret' = <<"returned", fn_ret[2]>>
  /\ FundsUnchanged

FundsNext ==
  \/ SelectStart
  \/ NextCategory
  \/ FillStep
  \/ FillExit
  \/ SelectDone

SpecFunds ==
  InitFunds /\ [][FundsNext]_vars

\* --------------------------------------------------------- CoordinatorAgent
\* teams/coordinator.py.  The coordinator object holds its session_id, the
\* session_id each sub-agent was constructed with, current_agent, the keys of
\* context that routing reads, and the position inside chat.  A session id
\* is a number: 0 is the constructor's argument, k the k-th uuid.uuid4().
\* In context a key that is None or {} is <<>> and a key with value v is
\* <<v>>; moved_to holds X for every key _moved_to_X that is True.
\* lines 113-120: the keys of agent_map, which is the workflow order
AgentOrder ==
  <<"currency", "geography", "risk_assessment", "fund_selection", "sub_risk_refinement", "optimization">>

\* lines 39-52 and 218-231: the context literal
InitialContext ==
  [currency |-> <<>>, geography_constraints |-> <<>>, primary_risk_bucket |-> <<>>, fund_counts |-> <<>>, suggested_funds |-> <<>>, volatility_target_pct |-> <<>>, drawdown_target_pct |-> <<>>, moved_to |-> {}]

\* lines 182-205: the first agent whose key is missing, then the three
\* tests of the flags in their order
determine_current_agent(context) ==
  LET first == IF context.currency = <<>> THEN "currency"
               ELSE IF context.currency = <<"USD">> /\ context.geography_constraints = <<>> THEN "geography"
               ELSE IF context.primary_risk_bucket = <<>> THEN "risk_assessment"
               ELSE IF context.suggested_funds = <<>> THEN "fund_selection"
               ELSE IF context.volatility_target_pct = <<>> /\ context.drawdown_target_pct = <<>> THEN "sub_risk_refinement"
               ELSE "optimization"
      second == IF "geography" \in context.moved_to /\ first = "currency" THEN "geography" ELSE first
      third == IF "risk_assessment" \in context.moved_to /\ second \in {"currency", "geography"} THEN "risk_assessment" ELSE second
  IN  IF "fund_selection" \in context.moved_to /\ third \in {"currency", "geography", "risk_assessment"} THEN "fund_selection" ELSE third

\* lines 59-72: what the database holds for the session is not in the
\* program's hands.  A key that is None may take a stored value (fund_counts
\* and geography_constraints start as {} and are never None), and stored
\* funds, when there are any, replace suggested_funds
Loaded(context) ==
  {[context EXCEPT !.currency = c, !.primary_risk_bucket = p, !.volatility_target_pct = v, !.drawdown_target_pct = d, !.suggested_funds = s] :
     c \in (IF context.currency = <<>> THEN {<<>>, <<"INR">>, <<"USD">>} ELSE {context.currency}),
     p \in (IF context.primary_risk_bucket = <<>> THEN {<<>>, <<"MEDIUM">>} ELSE {context.primary_risk_bucket}),
     v \in (IF context.volatility_target_pct = <<>> THEN {<<>>, <<25>>} ELSE {context.volatility_target_pct}),
     d \in (IF context.drawdown_target_pct = <<>> THEN {<<>>, <<20>>} ELSE {context.drawdown_target_pct}),
     s \in {context.suggested_funds, <<"stored funds">>}}

\* the dictionary an agent returns: "updated_context" and "next_agent"
Result(context, next_agent) ==
  [updated_context |-> context, next_agent |-> next_agent]

\* agents/currency_agent.py lines 63-150.  The model either calls
\* set_currency with one of the two currencies of its schema or answers in
\* words
CurrencyAgent(context) ==
  IF context.currency # <<>>
  THEN {Result(context, IF context.currency = <<"USD">> THEN <<"geography">> ELSE <<"risk_assessment">>)}
  ELSE {Result([context EXCEPT !.currency = <<currency_>>], IF currency_ = "USD" THEN <<"geography">> ELSE <<"risk_assessment">>) : currency_ \in {"INR", "USD"}}
         \cup {Result(context, <<>>)}

\* agents/geography_agent.py lines 88-300.  With constraints set the user
\* confirms, says something else, or asks for a change, which goes to the
\* model; set_geography_constraints always stores a non-empty allocation
GeographyAgent(context) ==
  IF context.currency # <<"USD">>
  THEN {Result(context, <<"risk_assessment">>)}
  ELSE IF context.geography_constraints # <<>> /\ "risk_assessment" \in context.moved_to
  THEN {Result(context, <<"risk_assessment">>)}
  ELSE (IF context.geography_constraints # <<>>
        THEN {Result([context EXCEPT !.moved_to = @ \cup {"risk_assessment"}], <<"risk_assessment">>)}
        ELSE {})
         \cup {Result([context EXCEPT !.geography_constraints = <<"USA 40, India 20">>], <<>>)}
         \cup {Result(context, <<>>)}

\* agents/risk_agent.py lines 122-378.  set_risk_profile stores the primary
\* risk and the default fund counts, and the targets it was given
RiskAssessmentAgent(context) ==
  IF context.primary_risk_bucket # <<>>
  THEN {Result(context, <<"fund_selection">>)}
  ELSE {Result([context EXCEPT !.primary_risk_bucket = <<"MEDIUM">>, !.fund_counts = <<"default">>, !.volatility_target_pct = v, !.drawdown_target_pct = d], <<"fund_selection">>) :
          v \in {context.volatility_target_pct, <<25>>}, d \in {context.drawdown_target_pct, <<20>>}}
         \cup {Result(context, <<>>)}

\* agents/fund_selection_agent.py lines 135-341.  With funds selected the
\* user's word decides; without them the funds are selected when the
\* context allows, and the selection may find none
FundSelectionAgent(context) ==
  IF context.suggested_funds # <<>>
  THEN {Result(context, <<"sub_risk_refinement">>), Result(context, <<>>)}
  ELSE IF context.currency = <<>> \/ context.primary_risk_bucket = <<>> \/ context.fund_counts = <<>>
  THEN {Result(context, <<>>)}
  ELSE {Result([context EXCEPT !.suggested_funds = selected], <<>>) : selected \in {<<>>, <<"selected funds">>}}

\* agents/sub_risk_agent.py lines 115-352.  refine_sub_risk stores the
\* targets it was given, and a default volatility when it was given none
SubRiskRefinementAgent(context) ==
  IF context.volatility_target_pct # <<>> \/ context.drawdown_target_pct # <<>>
  THEN {Result(context, <<"optimization">>)}
  ELSE {Result([context EXCEPT !.volatility_target_pct = t[1], !.drawdown_target_pct = t[2]], <<"optimization">>) :
          t \in {<< <<25>>, <<>> >>, << <<>>, <<20>> >>, << <<25>>, <<20>> >>}}
         \cup {Result(context, <<>>)}

\* an optimization agent that hands back a context without the funds
OptimizationAgentDroppingFunds(context) ==
  {Result([context EXCEPT !.suggested_funds = <<>>], <<>>)}

\* agents/optimization_agent.py lines 101-340: every return keeps the
\* context and names no next agent
OptimizationAgent(context) ==
  {Result(context, <<>>)}

\* lines 113-128: agent_map.get(self.current_agent).execute(...)
execute(current_agent, context) ==
  CASE current_agent = "currency" -> CurrencyAgent(context)
    [] current_agent = "geography" -> GeographyAgent(context)
    [] current_agent = "risk_assessment" -> RiskAssessmentAgent(context)
    [] current_agent = "fund_selection" -> FundSelectionAgent(context)
    [] current_agent = "sub_risk_refinement" -> SubRiskRefinementAgent(context)
    [] current_agent = "optimization" -> OptimizationAgent(context)

\* lines 19-55: the constructor gives the six sub-agents its session_id,
\* loads the context and determines the agent
InitCoordinator ==
  /\ Fresh
  /\ NoCall
  /\ Alone
  /\ pc = "call"
  /\ FUND_DATA = <<>>
  /\ generate_calls = 0
  /\ assignments = 0
  /\ \E context \in Loaded(InitialContext) :
       coordinator = << [session_id |-> 0, agents |-> [a \in {AgentOrder[i] : i \in 1..Len(AgentOrder)} |-> 0], current_agent |-> determine_current_agent(context), context |-> context, at |-> "chat", determined |-> TRUE, result |-> <<>>, resets |-> 0] >>

CoordinatorUnchanged ==
  UNCHANGED <<pc, currency, suggested_funds, fund_counts, geography_constraints,
              asset_split_targets, tax_saver_target_pct, selected_funds,
              min_length, model, risk_measure, solver_calls, weights_from,
              weights_dict, result, raised, fn, fn_args, fn_ret, minimize_calls,
              pass_calls, weights_array, response, FUND_DATA, generate_calls,
              assignments, threads>>

\* lines 96-110: chat loads the context and determines the agent
ChatRoute ==
  /\ coordinator # <<>>
  /\ coordinator[1].at = "chat"
  /\ \E context \in Loaded(coordinator[1].context) :
       coordinator' = << [coordinator[1] EXCEPT !.context = context, !.current_agent = determine_current_agent(context), !.determined = TRUE, !.at = "execute"] >>
  /\ CoordinatorUnchanged

\* lines 112-131: the agent runs and its context is taken over
ChatExecute ==
  /\ coordinator # <<>>
  /\ coordinator[1].at = "execute"
  /\ \E r \in execute(coordinator[1].current_agent, coordinator[1].context) :
       coordinator' = << [coordinator[1] EXCEPT !.context = r.updated_context, !.result = <<r>>, !.determined = FALSE, !.at = "move"] >>
  /\ CoordinatorUnchanged

\* lines 133-156: move to the agent the result names, running the fund
\* selection at once when nothing is selected, or determine the agent again
ChatMove ==
  /\ coordinator # <<>>
  /\ coordinator[1].at = "move"
  /\ LET self == coordinator[1]
         next_agent == self.result[1].next_agent
         moved == [self.context EXCEPT !.moved_to = @ \cup {next_agent[1]}]
     IN  IF next_agent # <<>>
         THEN IF self.current_agent # next_agent[1]
              THEN IF next_agent[1] = "fund_selection" /\ moved.suggested_funds = <<>>
                   THEN \E fund_result \in FundSelectionAgent(moved) :
                          coordinator' = << [self EXCEPT !.current_agent = IF fund_result.next_agent # <<>> THEN fund_result.next_agent[1] ELSE "fund_selection",
                                                          !.context = IF fund_result.next_agent # <<>> THEN [fund_result.updated_context EXCEPT !.moved_to = @ \cup {fund_result.next_agent[1]}] ELSE fund_result.updated_context,
                                                          !.result = <<>>, !.at = "chat"] >>
                   ELSE coordinator' = << [self EXCEPT !.current_agent = next_agent[1], !.context = moved, !.result = <<>>, !.at = "chat"] >>
              ELSE coordinator' = << [self EXCEPT !.result = <<>>, !.at = "chat"] >>
         ELSE coordinator' = << [self EXCEPT !.current_agent = determine_current_agent(self.context), !.determined = TRUE, !.result = <<>>, !.at = "chat"] >>
  /\ CoordinatorUnchanged

\* lines 207-231: reset takes a new session_id and the initial context; the
\* sub-agents are the objects the constructor made
reset ==
  /\ coordinator # <<>>
  /\ coordinator[1].at = "chat"
  /\ coordinator[1].resets < MaxResets
  /\ coordinator' = << [coordinator[1] EXCEPT !.session_id = coordinator[1].resets + 1, !.resets = @ + 1, !.current_agent = "currency", !.determined = FALSE, !.context = InitialContext] >>
  /\ CoordinatorUnchanged

CoordinatorNext ==
  \/ ChatRoute
  \/ ChatExecute
  \/ ChatMove
  \/ reset

SpecCoordinator ==
  InitCoordinator /\ [][CoordinatorNext]_vars

\* ------------------------------------------ the three passes and their dicts
\* One call of one of the three constraint functions, with the dictionary
\* objects told apart: the statements adjusted_weights[...] = ..., += and
\* del write the object adjusted_weights is bound to, and the dict
\* comprehension of the closing normalization builds a new object.
\* adjusted_weights bound to the caller's dictionary itself
SameObject(weights_dict_) ==
  [object |-> "weights_dict", items |-> weights_dict_]

\* lines 521, 560, 659: adjusted_weights = weights_dict.copy()
copy(weights_dict_) ==
  [object |-> "adjusted_weights", items |-> weights_dict_]

\* the items of adjusted_weights after the statements that write it in place:
\* lines 522-533, lines 563-640 and lines 660-664
WrittenInPlace(fn_, weights_dict_, selected_funds_, targets) ==
  CASE fn_ = "apply_asset_split_constraints" ->
         ScaleAssetTypes(weights_dict_, weights_dict_, selected_funds_, targets)
    [] fn_ = "apply_geography_constraints" ->
         Prune(KeepOnePerGeography(ScaleGeographies(SeedGeographies(weights_dict_, weights_dict_, selected_funds_, targets), selected_funds_, targets), selected_funds_, targets, ActiveGeos(targets)), selected_funds_)
    [] fn_ = "apply_tax_saver_constraint" ->
         IF Len(TaxSaverFunds(selected_funds_)) > 0 /\ IsPositive(SumGet(weights_dict_, TaxSaverFunds(selected_funds_)))
         THEN ScaleFunds(weights_dict_, TaxSaverFunds(selected_funds_), RDiv(R(targets), SumGet(weights_dict_, TaxSaverFunds(selected_funds_))))
         ELSE weights_dict_

\* the items of the caller's weights_dict when the function returns
ArgumentAfter(adjusted_weights, weights_dict_, written) ==
  IF adjusted_weights.object = "weights_dict" THEN written ELSE weights_dict_

\* the value the function returns
Returned(fn_, weights_dict_, selected_funds_, targets) ==
  CASE fn_ = "apply_asset_split_constraints" -> apply_asset_split_constraints(weights_dict_, selected_funds_, targets)
    [] fn_ = "apply_geography_constraints" -> apply_geography_constraints(weights_dict_, selected_funds_, targets)
    [] fn_ = "apply_tax_saver_constraint" -> apply_tax_saver_constraint(weights_dict_, selected_funds_, targets)

InitPasses ==
  \/ InitAsset
  \/ InitGeo
  \/ InitTax

\* selected_funds and the targets are only read by the three functions
CallPass ==
  /\ fn \in {"apply_asset_split_constraints", "apply_geography_constraints", "apply_tax_saver_constraint"}
  /\ fn_ret = <<>>
  /\ fn_ret' = <<"returned", Returned(fn, fn_args[1], fn_args[2], fn_args[3])>>
  /\ fn_args' = <<ArgumentAfter(copy(fn_args[1]), fn_args[1], WrittenInPlace(fn, fn_args[1], fn_args[2], fn_args[3])), fn_args[2], fn_args[3]>>
  /\ UNCHANGED <<pc, currency, suggested_funds, fund_counts, geography_constraints,
                 asset_split_targets, tax_saver_target_pct, selected_funds,
                 min_length, model, risk_measure, solver_calls, weights_from,
                 weights_dict, result, raised, fn, minimize_calls, pass_calls,
                 coordinator, weights_array, response, FUND_DATA, generate_calls,
                 assignments, threads>>

SpecPasses ==
  InitPasses /\ [][CallPass]_vars

\* ------------------------------------------------------------------ claims
\* the call has returned a result that carries a weights map
HasWeights ==
  pc = "returned" /\ "weights" \in DOMAIN result

\* C1: every result of risk_folio that carries a weights map (success after
\* the passes, single fund, fallback) has weights that sum to within 0.5 of
\* 100, whatever the targets and the resolved fund list.
C1_WeightsSumTo100 ==
  HasWeights =>
    /\ ~RLt(SumValues(result.weights), <<199, 2>>)
    /\ ~RLt(<<201, 2>>, SumValues(result.weights))

\* C2: risk_folio never raises an exception to its caller.
C2_NeverRaises ==
  pc # "raised"

\* a call of the selector has ended whose sub-risk token was not None
SelectCalled ==
  /\ fn = "select_optimization_model"
  /\ fn_ret # <<>>
  /\ fn_args[2] # <<>>

\* C3: for the nine well-formed inputs (primary P, token P_S) the selector
\* returns the objective of the policy-table row (P, S), S the second half
\* of the token.
C3_PolicyTable ==
  (/\ SelectCalled
   /\ Len(fn_args[2][1]) = 2
   /\ fn_args[2][1][1] = fn_args[1]
   /\ fn_args[2][1][2] \in Labels)
  => /\ fn_ret[1] = "returned"
     /\ fn_ret[2][1] = PolicyTable(fn_args[1], fn_args[2][1][2])

\* C4: the map returned by apply_geography_constraints holds, for each
\* geography with a target > 0 and at least one selected fund, a fund of that
\* geography with weight > 0, whatever the input weights map.
C4_GeographyPresence ==
  (fn = "apply_geography_constraints" /\ fn_ret # <<>>) =>
    \A i \in 1..Len(fn_args[3]) :
      (/\ fn_args[3][i][2] > 0
       /\ FundsOfGeo(fn_args[2], fn_args[3][i][1]) # <<>>)
      => \E f \in Range(FundsOfGeo(fn_args[2], fn_args[3][i][1])) :
           /\ f \in DOMAIN fn_ret[2]
           /\ IsPositive(fn_ret[2][f])

\* C4 witness: Japan has a target of 40 and a selected fund that the input
\* map does not hold; the returned map gives that fund 40.
C4_Witness ==
  /\ fn = "apply_geography_constraints"
  /\ fn_ret # <<>>
  /\ fn_args[2] = <<"Vanguard S&P 500 Index Fund", "Nikko AM Japan Equity Fund">>
  /\ fn_args[3] = << <<"USA", 100>>, <<"Japan", 40>> >>
  /\ DOMAIN fn_args[1] = {"Vanguard S&P 500 Index Fund"}
  /\ fn_args[1]["Vanguard S&P 500 Index Fund"] = R(100)
  /\ "Nikko AM Japan Equity Fund" \in DOMAIN fn_ret[2]
  /\ IsPositive(fn_ret[2]["Nikko AM Japan Equity Fund"])

\* C5: with exactly one resolved fund risk_folio calls no solver and runs no
\* pass, and the result it returns has weights {name: 100.0},
\* optimization_success False and a non-empty error.
C5_SingleFundShortcut ==
  Len(selected_funds) = 1 =>
    /\ pc \in {"align", "returned", "raised"}
    /\ solver_calls = 0
    /\ weights_from = ""
    /\ pc = "returned" =>
         /\ result.weights = [k \in {selected_funds[1]} |-> R(100)]
         /\ result.optimization_success = FALSE
         /\ result.error # ""

\* C5 witness: one fund was resolved from a suggested list and the call
\* returned.
C5_Witness ==
  /\ pc = "returned"
  /\ selected_funds = <<"HDFC TaxSaver Fund">>
  /\ suggested_funds = << <<" hdfc taxsaver fund ", "Unknown Fund">> >>
  /\ result.model_used = "single_fund"

\* C6: when no fund is resolved the call returns at once a result with an
\* error field and no weights key.
C6_NoFundsError ==
  (pc \notin {"call", "function"} /\ Len(selected_funds) = 0) =>
    /\ pc = "returned"
    /\ "error" \in DOMAIN result
    /\ "weights" \notin DOMAIN result

\* C6 witness: every suggested name is unknown and the call returned.
C6_Witness ==
  /\ pc = "returned"
  /\ suggested_funds = << <<"Unknown Fund", "Unknown Fund">> >>
  /\ selected_funds = <<>>
  /\ "error" \in DOMAIN result

\* the result is the equal-weight fallback over the resolved funds
IsFallback ==
  /\ pc = "returned"
  /\ result.weights = EqualWeights(selected_funds)
  /\ result.model_used = "equal_weight_fallback"
  /\ result.optimization_success = FALSE
  /\ result.error # ""

\* C7: with two or more funds, when the aligned series have fewer than 10
\* days (every length 0..9) or the solver raises, the call returns the
\* equal-weight fallback carrying the exception text.
C7_FallbackOnShortOrRaise ==
  /\ (/\ Len(selected_funds) >= 2
      /\ min_length # <<>>
      /\ min_length[1] < MinHistoryDays
      /\ pc \notin {"frame", "select"})
     => IsFallback
  /\ (pc = "returned" /\ solver_calls > 0 /\ weights_from = "")
     => IsFallback

\* C8: every value of the weights map of a returned result is >= 0.
C8_NonNegativeWeights ==
  HasWeights => \A k \in DOMAIN result.weights : result.weights[k][1] >= 0

\* C8 witness: an INR request whose asset-split pass and tax-saver pass both
\* rescaled the solver's weights.
C8_Witness ==
  /\ HasWeights
  /\ result.optimization_success
  /\ currency = "INR"
  /\ asset_split_targets = << <<"equity", 60>>, <<"debt", 30>>, <<"tax_saver", 10>> >>
  /\ tax_saver_target_pct = <<20>>
  /\ weights_from = "first"
  /\ selected_funds = <<"HDFC Top 100 Fund", "HDFC TaxSaver Fund">>
  /\ IsPositive(result.weights["HDFC TaxSaver Fund"])

\* the token holds none of the labels in its second half
Malformed(sub_risk_bucket) ==
  SecondHalf(sub_risk_bucket) \notin Labels

\* C9 (as stated): for every primary bucket a malformed sub-risk token gives
\* risk_parity.
C9_MalformedIsRiskParity ==
  (SelectCalled /\ Malformed(fn_args[2][1])) =>
    /\ fn_ret[1] = "returned"
    /\ fn_ret[2][1] = "risk_parity"

\* the objective of the last branch of each primary bucket
LastBranch(primary) ==
  CASE primary = "HIGH" -> "max_sharpe"
    [] primary = "MEDIUM" -> "risk_parity"
    [] OTHER -> "min_volatility"

\* C9 (amended): a sub-risk token that holds none of the labels anywhere gets
\* the last branch of its primary bucket: max_sharpe for HIGH, risk_parity
\* for MEDIUM, min_volatility for LOW.
C9_MalformedIsLastBranch ==
  (SelectCalled /\ \A label \in Labels : ~Contains(fn_args[2][1], label)) =>
    /\ fn_ret[1] = "returned"
    /\ fn_ret[2][1] = LastBranch(fn_args[1])

\* C9 witness: primary HIGH with a token that holds no label returned
\* max_sharpe.
C9_Witness ==
  /\ SelectCalled
  /\ fn_args[1] = "HIGH"
  /\ fn_args[2] = << <<"OTHER", "OTHER">> >>
  /\ fn_ret = <<"returned", <<"max_sharpe", "Variance">> >>

\* C10: every result that carries weights has risk_measure 'Variance'.
C10_RiskMeasureVariance ==
  HasWeights => result.risk_measure = "Variance"

\* C11: in every result, model_used names the objective that produced the
\* returned weights: the objective of the minimize call whose x became the
\* weights (the selected one for the first solve, max_sharpe for the relaxed
\* retry), and an equal-weight name when the weights are the last resort.
EqualWeightNames ==
  {"equal_weight", "equal_weights", "equal_weight_fallback"}

C11_ModelUsedNamesObjective ==
  (pc = "returned" /\ weights_from # "") =>
    IF weights_from = "last_resort"
    THEN result.model_used \in EqualWeightNames
    ELSE result.model_used = minimize_calls[Len(minimize_calls)][1]

\* C13: when suggested_funds is supplied and non-empty, the funds optimized are
\* exactly the listed funds, one resolved fund per listed name, in order.
C13_SuggestedUsedVerbatim ==
  (pc \notin {"call", "function", "agent"} /\ suggested_funds # <<>>
     /\ Len(suggested_funds[1]) > 0) =>
    /\ Len(selected_funds) = Len(suggested_funds[1])
    /\ \A i \in 1..Len(selected_funds) :
         ResolveName(suggested_funds[1][i]) = <<selected_funds[i]>>

\* C16: a resolved fund list with fewer than 2 distinct names gives a result
\* with optimization_success False.
C16_FewDistinctDegrades ==
  (pc = "returned" /\ Len(selected_funds) > 0
     /\ Cardinality(Range(selected_funds)) < 2) =>
    /\ "optimization_success" \in DOMAIN result
    /\ result.optimization_success = FALSE

\* C18: minimize is called at most twice in a call of risk_folio; the second
\* call is made if and only if the first returned with success False; it uses
\* max_sharpe under bounds (0.005, 0.95); when it fails or raises every fund
\* has the raw weight max(0.005, 1/N).
C18_RetryOnce ==
  /\ Len(minimize_calls) <= 2
  /\ pc # "retry" =>
       (Len(minimize_calls) = 2
          <=> (Len(minimize_calls) >= 1 /\ minimize_calls[1][4] = "failure"))
  /\ Len(minimize_calls) = 2 =>
       /\ minimize_calls[2][1] = "max_sharpe"
       /\ minimize_calls[2][2] = 5 /\ minimize_calls[2][3] = 950
       /\ minimize_calls[2][4] # "success" =>
            /\ Len(weights_array) = Len(selected_funds)
            /\ \A i \in 1..Len(weights_array) :
                 weights_array[i] =
                   RMax(Norm(5, 1000), Norm(1, Len(selected_funds)))

C18_Witness ==
  /\ pc = "returned"
  /\ Len(selected_funds) = 2
  /\ Len(minimize_calls) = 2
  /\ minimize_calls[1][1] = "min_volatility"
  /\ minimize_calls[2][4] = "raised"
  /\ weights_array = <<Norm(1, 2), Norm(1, 2)>>

\* C19: when both minimize calls report non-convergence and the weights are the
\* equal last-resort weights, the result has optimization_success False and a
\* non-empty error message.
C19_LastResortIsDegraded ==
  (pc = "returned" /\ Len(minimize_calls) = 2
     /\ minimize_calls[1][4] = "failure" /\ minimize_calls[2][4] = "failure") =>
    /\ result.optimization_success = FALSE
    /\ "error" \in DOMAIN result
    /\ result.error # ""

\* C12: calls that differ only in volatility_target_pct and drawdown_target_pct
\* (numbers or None) end alike.  risk_folio hands the two targets to
\* select_optimization_model and reads them nowhere else, so: whatever the two
\* targets are, the selector ends the same way, with the same model and the
\* same risk measure.
SelectOutcome(primary, sub, vol, dd) ==
  IF sub = <<>>
  THEN <<"raised", "TypeError">>
  ELSE <<"returned", select_optimization_model(primary, sub[1], vol, dd)>>

C14_LoadedOnce ==
  /\ generate_calls <= 1
  /\ assignments <= 1

\* C15: on a map of two-decimal weights that sums to 100 the closing
\* normalization of the passes (each weight replaced by
\* round(weight * 100 / total, 2)) changes nothing, in the form of passes A
\* and C and in the form of pass B, and applying it twice gives what applying
\* it once gives.
SumsTo100(weights) ==
  SumValues(weights) = R(100)

C15_RenormalizeIsNoOp ==
  (fn = "renormalize" /\ SumsTo100(fn_args[1])) =>
    /\ Len(fn_ret) >= 1 =>
         /\ fn_ret[1] = fn_args[1]
         /\ RenormalizeOrEqual(fn_args[1], fn_args[2]) = fn_args[1]
    /\ Len(fn_ret) = 2 => fn_ret[2] = fn_ret[1]

C15_Witness ==
  /\ fn = "renormalize"
  /\ Len(fn_args[2]) = 3
  /\ fn_args[1]["HDFC Top 100 Fund"] = Norm(3333, 100)
  /\ fn_args[1]["HDFC TaxSaver Fund"] = Norm(3333, 100)
  /\ fn_args[1]["HDFC Corporate Bond Fund"] = Norm(3334, 100)
  /\ Len(fn_ret) = 2
  /\ fn_ret[2] = fn_args[1]

\* C17: when risk_folio returns a degraded result that carries weights
\* (single_fund or equal_weight_fallback), the response of
\* OptimizationAgent.execute shows that allocation and the error text and
\* passes the result on as optimization_result.
C17_DegradedIsShown ==
  (pc = "responded" /\ result # <<>> /\ "weights" \in DOMAIN result
     /\ result.optimization_success = FALSE) =>
    /\ response[1].weights = <<result.weights>>
    /\ response[1].error = result.error
    /\ response[1].optimization_result = <<result>>

\* C20: after apply_asset_split_constraints, when every selected fund's asset
\* type has a target, every targeted type has a positive current weight sum
\* and the targets total T > 0: each asset type's total weight is
\* 100 * target / T within the rounding of its funds (0.005 each), the weights
\* of two funds of one type keep their proportion within that rounding, and a
\* fund that entered with weight 0 leaves with weight 0.
RECURSIVE Distinct(_)
Distinct(seq) ==
  IF seq = <<>> THEN <<>>
  ELSE <<Head(seq)>> \o Distinct(Filter(Tail(seq), Range(seq) \ {Head(seq)}))

RECURSIVE SumTargets(_)
SumTargets(targets) ==
  IF targets = <<>> THEN 0 ELSE Head(targets)[2] + SumTargets(Tail(targets))

\* |a - b| <= tolerance
Within(a, b, tolerance) ==
  /\ ~RLt(tolerance, RAdd(a, <<-b[1], b[2]>>))
  /\ ~RLt(tolerance, RAdd(b, <<-a[1], a[2]>>))

\* the funds of a type, each once, and the total weight a map gives them
TypeFunds(fund_list, asset_type) ==
  Distinct(FundsOfType(fund_list, asset_type))

AssetSplitCase(weights, fund_list, targets) ==
  /\ \A f \in Range(fund_list) : AssetTypeOf(f) \in Keys(targets)
  /\ \A asset_type \in Keys(targets) :
       IsPositive(SumGet(weights, TypeFunds(fund_list, asset_type)))
  /\ SumTargets(targets) > 0

AssetSplitMet(weights, fund_list, targets, out) ==
  /\ \A asset_type \in Keys(targets) :
       Within(SumGet(out, TypeFunds(fund_list, asset_type)),
              Norm(100 * GetPct(targets, asset_type), SumTargets(targets)),
              Norm(Len(TypeFunds(fund_list, asset_type)), 200))
  /\ \A f \in DOMAIN weights, g \in DOMAIN weights :
       AssetTypeOf(f) = AssetTypeOf(g) =>
         Within(RMul(out[f], weights[g]), RMul(out[g], weights[f]),
                RMul(RAdd(weights[f], weights[g]), Norm(1, 200)))
  /\ \A f \in DOMAIN weights : weights[f] = Zero => out[f] = Zero

C20_AssetSplitMet ==
  (fn = "apply_asset_split_constraints" /\ fn_ret # <<>>
     /\ AssetSplitCase(fn_args[1], fn_args[2], fn_args[3])) =>
    AssetSplitMet(fn_args[1], fn_args[2], fn_args[3], fn_ret[2])

\* adjusted_weights of a geography call as the removal loop finds it: after
\* the seeding, scaling and keep-one loops, before the closing normalization
C21_Adjusted ==
  KeepOnePerGeography(
    ScaleGeographies(
      SeedGeographies(fn_args[1], fn_args[1], fn_args[2], fn_args[3]),
      fn_args[2], fn_args[3]),
    fn_args[2], fn_args[3], ActiveGeos(fn_args[3]))

\* fund is the only fund of its geography in the map, and the geography has
\* a positive target
C21_SoleOfActiveGeography(fund, map, constraints) ==
  /\ GetPct(constraints, FundRow(fund).geography) > 0
  /\ \A other \in DOMAIN map \ {fund} :
       FundRow(other).geography # FundRow(fund).geography

\* C21: in the map returned by apply_geography_constraints every fund whose
\* weight before the final renormalization was below 0.01 is gone, unless it
\* is the sole remaining fund of a geography with a positive target; no fund
\* of a geography with target 0 remains in the map.
C21_SmallWeightsPruned ==
  (fn = "apply_geography_constraints" /\ fn_ret # <<>>) =>
    /\ \A fund \in DOMAIN C21_Adjusted \cap DOMAIN fn_ret[2] :
         RLt(C21_Adjusted[fund], SmallWeight) =>
           C21_SoleOfActiveGeography(fund, fn_ret[2], fn_args[3])
    /\ \A fund \in DOMAIN fn_ret[2] :
         ~(/\ FundRow(fund).geography \in Keys(fn_args[3])
           /\ GetPct(fn_args[3], FundRow(fund).geography) = 0)

\* the total weight a map gives the tax-saver funds of a list, each once
C22_TaxSaverShare(map, fund_list) ==
  SumGet(map, Distinct(TaxSaverFunds(fund_list)))

\* C22: for a target t with 0 < t < 100 and a tax-saver fund with positive
\* weight, the tax-saver funds of the map returned by
\* apply_tax_saver_constraint hold at least t (to the rounding of one
\* hundredth per weight), whatever they held before.
C22_TaxSaverTargetMet ==
  (/\ fn = "apply_tax_saver_constraint" /\ fn_ret # <<>>
   /\ fn_args[3] > 0 /\ fn_args[3] < 100
   /\ IsPositive(C22_TaxSaverShare(fn_args[1], fn_args[2]))) =>
    ~RLt(RAdd(C22_TaxSaverShare(fn_ret[2], fn_args[2]), Norm(5, 100)),
         R(fn_args[3]))

\* no selected fund is a tax-saver fund, or every one of them has weight 0
C23_NothingToScale(weights, fund_list) ==
  \A f \in Range(TaxSaverFunds(fund_list)) :
    f \notin DOMAIN weights \/ weights[f] = Zero

\* C23: when no selected fund has type taxsaver, or all tax-saver funds have
\* weight 0, apply_tax_saver_constraint returns the weights map with every
\* weight unchanged: nothing is injected and nothing is renormalized.
C23_NoTaxSaverNoChange ==
  (/\ fn = "apply_tax_saver_constraint" /\ fn_ret # <<>>
   /\ C23_NothingToScale(fn_args[1], fn_args[2])) =>
    fn_ret[2] = fn_args[1]

\* a call with a tax-saver fund at weight 0 beside a fund at 30: the map comes
\* back as it went in, not renormalized to 100
C23_Witness ==
  /\ fn = "apply_tax_saver_constraint" /\ fn_ret # <<>>
  /\ DOMAIN fn_args[1] = {"HDFC TaxSaver Fund", "HDFC Top 100 Fund"}
  /\ fn_args[1]["HDFC TaxSaver Fund"] = Zero
  /\ fn_args[1]["HDFC Top 100 Fund"] = R(30)
  /\ fn_ret[2]["HDFC Top 100 Fund"] = R(30)
  /\ fn_ret[2]["HDFC TaxSaver Fund"] = Zero

\* the passes the three tests of lines 445, 452 and 459 select, in code order
C24_Expected ==
  (IF asset_split_targets # <<>>
   THEN <<"apply_asset_split_constraints">> ELSE <<>>)
  \o (IF currency = "USD" /\ geography_constraints # <<>>
      THEN <<"apply_geography_constraints">> ELSE <<>>)
  \o (IF currency = "INR" /\ tax_saver_target_pct # <<>> /\ tax_saver_target_pct[1] > 0
      THEN <<"apply_tax_saver_constraint">> ELSE <<>>)

\* a returned result: the passes that ran are the selected ones in the order
\* asset, geography, tax saver when optimization_success is True and none
\* otherwise; geography and tax saver never both
C24_PassesOfResult ==
  /\ pc = "returned" =>
       pass_calls = IF "optimization_success" \in DOMAIN result
                       /\ result.optimization_success
                    THEN C24_Expected
                    ELSE <<>>
  /\ ~(/\ "apply_geography_constraints" \in Range(pass_calls)
       /\ "apply_tax_saver_constraint" \in Range(pass_calls))

\* a step that calls a pass hands it the map the previous step left and keeps
\* what the pass returns
C24_PassTakesPreviousOutput ==
  pass_calls' # pass_calls =>
    /\ pass_calls' = Append(pass_calls, pass_calls'[Len(pass_calls')])
    /\ weights_dict' =
         CASE pass_calls'[Len(pass_calls')] = "apply_asset_split_constraints" ->
                apply_asset_split_constraints(weights_dict, selected_funds,
                                              asset_split_targets')
           [] pass_calls'[Len(pass_calls')] = "apply_geography_constraints" ->
                apply_geography_constraints(weights_dict, selected_funds,
                                            geography_constraints')
           [] pass_calls'[Len(pass_calls')] = "apply_tax_saver_constraint" ->
                apply_tax_saver_constraint(weights_dict, selected_funds,
                                           tax_saver_target_pct'[1])

\* C24: the constraint passes run only on the path that returns
\* optimization_success True, in the order asset split, geography, tax saver,
\* each on the previous pass's output: asset iff asset_split_targets is
\* non-empty, geography iff USD with non-empty geography_constraints, tax
\* saver iff INR with tax_saver_target_pct > 0; geography and tax saver never
\* both, and no pass for single_fund or equal_weight_fallback results.
C24_PassesRunInOrder ==
  [](C24_PassesOfResult) /\ [][C24_PassTakesPreviousOutput]_vars

\* a USD call that ran the asset pass and then the geography pass
C24_Witness ==
  /\ pc = "returned"
  /\ "optimization_success" \in DOMAIN result
  /\ result.optimization_success
  /\ pass_calls = <<"apply_asset_split_constraints", "apply_geography_constraints">>

\* C25: on the solver path, before any constraint pass, the weights map has
\* an entry for every resolved fund and every weight is at least 0.5
\* (percent), for every vector minimize or the equal-weight last resort gives.
C25_EveryFundAtLeastHalfPercent ==
  pc = "asset" =>
    /\ DOMAIN weights_dict = Range(selected_funds)
    /\ \A k \in DOMAIN weights_dict : ~RLt(weights_dict[k], Norm(1, 2))

\* the relaxed solver has put a fund at its lower bound 0.005: the map, not
\* yet touched by a pass, holds it at 0.5
C25_Witness ==
  /\ pc = "asset"
  /\ weights_from = "relaxed"
  /\ \E i \in 1..Len(weights_array) : weights_array[i] = Milli(RelaxedMinWeightMilli)
  /\ \E k \in DOMAIN weights_dict : weights_dict[k] = Norm(1, 2)

\* the value the objective named by fn gives a portfolio
C26_ObjectiveValue(portfolio_return, portfolio_vol) ==
  IF fn = "negative_sharpe"
  THEN negative_sharpe(portfolio_return, portfolio_vol)
  ELSE negative_sharpe_relaxed(portfolio_return, portfolio_vol)

\* C26: the max_sharpe objective is minimized, and what it returns for a
\* portfolio with volatility below 1e-6 is a penalty: positive, and larger
\* than what it returns for any portfolio with volatility at least 1e-6.
C26_DegenerateIsPenalized ==
  (/\ fn \in {"negative_sharpe", "negative_sharpe_relaxed"} /\ fn_ret # <<>>
   /\ RLt(fn_args[2], <<1, 1000000>>)) =>
    /\ IsPositive(fn_ret[2])
    /\ \A portfolio_return \in PortfolioReturns, portfolio_vol \in PortfolioVols :
         ~RLt(portfolio_vol, <<1, 1000000>>) =>
           RLt(C26_ObjectiveValue(portfolio_return, portfolio_vol), fn_ret[2])

\* the selection has returned its list
C27_Returned ==
  fn = "select_funds" /\ fn_ret # <<>> /\ fn_ret[1] = "returned"

\* how many entries of a list are funds of a category
C27_CountOf(list, category) ==
  Cardinality({j \in 1..Len(list) : FundRow(list[j]).category = category})

\* how many funds of a category the call can choose from
C27_Available(category) ==
  Len(CategoryFunds(AvailableFunds(fn_args[1], fn_args[4]), category))

\* without suggested_funds every category with count c > 0 has given
\* min(c, available) funds, and no fund is listed twice
C27_ContributionsExact ==
  (C27_Returned /\ fn_args[2] = <<>>) =>
    /\ \A i \in 1..Len(fn_args[3]) :
         fn_args[3][i][2] > 0 =>
           C27_CountOf(fn_ret[2], fn_args[3][i][1]) =
             IF fn_args[3][i][2] < C27_Available(fn_args[3][i][1])
             THEN fn_args[3][i][2]
             ELSE C27_Available(fn_args[3][i][1])
    /\ Cardinality(Range(fn_ret[2])) = Len(fn_ret[2])

\* with suggested_funds the list is the one an empty fund_counts gives
C27_CountsIgnored ==
  (C27_Returned /\ fn_args[2] # <<>>) =>
    fn_ret[2] = SelectFunds(fn_args[1], fn_args[2], <<>>, fn_args[4])

\* the bound of termination: the items of fund_counts still to come, each
\* worth more than any while loop, plus the passes the running while loop has
\* left (a list holds at most Len(FundNames) + MaxCount funds)
C27_Measure ==
  IF fn_ret = <<>> THEN (Len(fn_args[3]) + 2) * (2 * (Len(FundNames) + MaxCount) + 4)
  ELSE IF fn_ret[1] = "returned" THEN 0
  ELSE (Len(fn_args[3]) + 1 - fn_ret[3]) * (2 * (Len(FundNames) + MaxCount) + 4)
         + (IF fn_ret[1] = "for"
            THEN Len(FundNames) + MaxCount + 2
            ELSE Len(FundNames) + MaxCount + 1 - Len(fn_ret[4]))

\* a while loop whose test holds finds a fund to add
C27_LoopFindsFund ==
  (fn = "select_funds" /\ fn_ret # <<>> /\ fn_ret[1] = "while"
     /\ Len(fn_ret[4]) < fn_args[3][fn_ret[3]][2]
     /\ C27_Available(fn_args[3][fn_ret[3]][1]) > Len(fn_ret[4])) =>
    \E n \in Range(CategoryFunds(AvailableFunds(fn_args[1], fn_args[4]),
                                 fn_args[3][fn_ret[3]][1])) :
      n \notin Range(fn_ret[4])

\* C27: without suggested_funds the fund selection of risk_folio terminates
\* for every fund_counts and geography_constraints (every statement lowers a
\* bound that is never negative, and no pass of the while loop leaves the
\* list as it was), and each category with count c > 0 contributes exactly
\* min(c, funds of the category available for the currency, within the
\* constrained geographies for USD) funds, all distinct; with
\* suggested_funds, fund_counts has no effect on the selection.
C27_SelectionTerminatesExact ==
  /\ [](C27_ContributionsExact /\ C27_CountsIgnored)
  /\ [](C27_LoopFindsFund /\ C27_Measure >= 0)
  /\ [][C27_Measure' < C27_Measure]_vars

\* a USD call for three large-cap funds under two geographies: the while loop
\* has added the third fund and the call has returned all three
C27_Witness ==
  /\ C27_Returned
  /\ fn_args[1] = "USD" /\ fn_args[2] = <<>>
  /\ fn_args[4] = << <<"USA", 60>>, <<"Japan", 40>> >>
  /\ fn_args[3][1] = <<"large_cap", 3>>
  /\ Len(fn_ret[2]) = 3

\* the place of an agent in the workflow order
C28_Rank(agent) ==
  CHOOSE i \in 1..Len(AgentOrder) : AgentOrder[i] = agent

\* C28: once the coordinator has moved to an agent X (the key _moved_to_X of
\* the context is set), every later _determine_current_agent, on whatever
\* context the agents have left behind, selects X or an agent after X in the
\* workflow order and never an earlier one, until reset.  determined marks
\* the states whose current_agent is the outcome of _determine_current_agent
C28_NeverBeforeMovedTo ==
  (coordinator # <<>> /\ coordinator[1].determined)
    => \A X \in coordinator[1].context.moved_to : C28_Rank(coordinator[1].current_agent) >= C28_Rank(X)

\* a chat after the move to optimization: _determine_current_agent ran with
\* _moved_to_optimization set and selected optimization
C28_Witness ==
  /\ coordinator # <<>>
  /\ coordinator[1].determined
  /\ coordinator[1].at = "execute"
  /\ "optimization" \in coordinator[1].context.moved_to
  /\ coordinator[1].current_agent = "optimization"

\* C29: in every reachable state of the coordinator, after any number of
\* reset() calls too, the coordinator and its six sub-agents hold the same
\* session_id, so that what a sub-agent saves is stored under the session
\* the coordinator loads from
C29_OneSessionId ==
  coordinator # <<>>
    => \A agent \in DOMAIN coordinator[1].agents : coordinator[1].agents[agent] = coordinator[1].session_id

\* C30: apply_asset_split_constraints, apply_geography_constraints and
\* apply_tax_saver_constraint leave their arguments unchanged: after the call
\* the weights map the caller passed has the keys and values it had before,
\* selected_funds and the targets are as they were, and the adjusted weights
\* are in the returned map only
C30_ArgumentsUnchanged ==
  [][fn_args' = fn_args]_vars

\* a geography pass has written adjusted_weights and returned a map with other
\* keys than the map it was given
C30_Witness ==
  /\ fn_ret # <<>>
  /\ fn = "apply_geography_constraints"
  /\ DOMAIN fn_ret[2] # DOMAIN fn_args[1]
  /\ WrittenInPlace(fn, fn_args[1], fn_args[2], fn_args[3]) # fn_args[1]

====
